---- MODULE Spec2Model ----
(***************************************************************************)
(* Model of the Intelligence pipeline of hyab_data_cleaner_v6.2.py:        *)
(* parse_master, ltm_sort_key, analyze_cohorts, analyze_ltm_trajectories   *)
(* and analyze_ltm_decomposition, driven by the "Generate Dashboard"       *)
(* handler.  Strings are tuples of one-character strings, so that the      *)
(* string operations of the source (replace, split, lower, int, str) are   *)
(* computed and not assumed.                                               *)
(***************************************************************************)
EXTENDS Integers, Sequences, FiniteSets, TLC

VARIABLES
    wb,            \* the uploaded workbook: sheet name -> sheet
    pc,            \* position of the handler
    data,          \* the Dataset built by parse_master
    ltms,          \* sorted LTM keys of the handler
    curr,          \* selected current LTM key
    prev,          \* selected previous LTM key
    cohorts,       \* result of analyze_cohorts
    trajectories,  \* result of analyze_ltm_trajectories
    html,          \* the bindings generate_html computes for the report
    api_key,       \* the API key typed into the page ("" when none)
    response,      \* the answer of the commentary API to the last request
    commentary,    \* the commentary map handed to generate_html
    error,         \* the message st.error shows ("" when none)
    session_state, \* st.session_state: key -> value
    labels,        \* period key resolver: the labels to sort
    sorted_labels, \* period key resolver: the labels sorted by ltm_sort_key
    industry_stats, \* handler local: the per-sector sums of the customer loop
    input,         \* the argument of the function called on its own
    output         \* what that call returned

vars == << wb, pc, data, ltms, curr, prev, cohorts, trajectories, html,
           api_key, response, commentary, error, session_state,
           labels, sorted_labels, industry_stats, input, output >>

-----------------------------------------------------------------------------
(* Bounds of the model *)

\* rows per sheet in the small workbooks
MaxRows == 2
\* LTM columns of the trajectory workbooks
MaxWindowCols == 5
\* LTM columns of the wide workbooks
MaxLtmCols == 14
\* customers of the workbooks with many declining customers
MaxTrajRows == 12

-----------------------------------------------------------------------------
(* Characters and strings *)

UpperLetters == << "A","B","C","D","E","F","G","H","I","J","K","L","M",
                   "N","O","P","Q","R","S","T","U","V","W","X","Y","Z","Å","Ä","Ö" >>
LowerLetters == << "a","b","c","d","e","f","g","h","i","j","k","l","m",
                   "n","o","p","q","r","s","t","u","v","w","x","y","z","å","ä","ö" >>
DigitChars == << "0","1","2","3","4","5","6","7","8","9" >>

IsDigit(c) == \E i \in 1..10 : DigitChars[i] = c
DigitVal(c) == (CHOOSE i \in 1..10 : DigitChars[i] = c) - 1

\* str.lower() on one character
LowerChar(c) ==
    IF \E i \in 1..Len(UpperLetters) : UpperLetters[i] = c
    THEN LowerLetters[CHOOSE i \in 1..Len(UpperLetters) : UpperLetters[i] = c]
    ELSE c
\* str.upper() on one character
UpperChar(c) ==
    IF \E i \in 1..Len(UpperLetters) : LowerLetters[i] = c
    THEN UpperLetters[CHOOSE i \in 1..Len(UpperLetters) : LowerLetters[i] = c]
    ELSE c

\* str.lower()
StrLower(s) == [i \in 1..Len(s) |-> LowerChar(s[i])]
StrUpper(s) == [i \in 1..Len(s) |-> UpperChar(s[i])]

\* str.startswith(p)
StartsWith(s, p) == Len(s) >= Len(p) /\ SubSeq(s, 1, Len(p)) = p

\* str.replace(old, ''), all non-overlapping occurrences from the left
RECURSIVE StrRemove(_, _)
StrRemove(s, old) ==
    IF s = << >> THEN << >>
    ELSE IF StartsWith(s, old) THEN StrRemove(SubSeq(s, Len(old) + 1, Len(s)), old)
    ELSE << s[1] >> \o StrRemove(Tail(s), old)

\* str.split(sep) for a one-character separator: the list of parts
RECURSIVE StrSplit(_, _)
StrSplit(s, sep) ==
    IF \A i \in 1..Len(s) : s[i] # sep THEN << s >>
    ELSE LET k == CHOOSE i \in 1..Len(s) :
                      s[i] = sep /\ \A j \in 1..(i - 1) : s[j] # sep
         IN  << SubSeq(s, 1, k - 1) >> \o StrSplit(SubSeq(s, k + 1, Len(s)), sep)

\* the no-break space U+00A0, written as one character of a string
Nbsp == "nbsp"

\* the characters str.strip() removes and the pattern \s matches
IsSpace(c) == c \in { " ", "\t", "\n", Nbsp }

\* str.strip()
RECURSIVE StrStrip(_)
StrStrip(s) ==
    IF s = << >> THEN s
    ELSE IF IsSpace(s[1]) THEN StrStrip(Tail(s))
    ELSE IF IsSpace(s[Len(s)]) THEN StrStrip(SubSeq(s, 1, Len(s) - 1))
    ELSE s

\* the digits of int(s) once blanks and a leading plus sign are removed
IntBody(s) ==
    LET t == StrStrip(s)
    IN  IF t # << >> /\ t[1] = "+" THEN Tail(t) ELSE t

\* int(s) succeeds (no ValueError)
IsIntStr(s) ==
    /\ IntBody(s) # << >>
    /\ \A i \in 1..Len(IntBody(s)) : IsDigit(IntBody(s)[i])

RECURSIVE DigitsValue(_)
DigitsValue(d) ==
    IF d = << >> THEN 0
    ELSE 10 * DigitsValue(SubSeq(d, 1, Len(d) - 1)) + DigitVal(d[Len(d)])

\* int(s) when it succeeds
IntOf(s) == DigitsValue(IntBody(s))

\* two-digit rendering of a year 0..99, as in the ledger's labels
TwoDigits(n) == << DigitChars[(n \div 10) + 1], DigitChars[(n % 10) + 1] >>

-----------------------------------------------------------------------------
(* Period key resolver *)

SentinelYear == 9999
SentinelMonth == 99
CenturyBase == 2000
DefaultMonth == 1

\* the keys of swedish_months, in the order of their values 1..12
swedish_months ==
    << <<"j","a","n">>, <<"f","e","b">>, <<"m","a","r">>, <<"a","p","r">>,
       <<"m","a","j">>, <<"j","u","n">>, <<"j","u","l">>, <<"a","u","g">>,
       <<"s","e","p">>, <<"o","k","t">>, <<"n","o","v">>, <<"d","e","c">> >>

\* swedish_months.get(name, dflt)
MonthGet(name, dflt) ==
    IF \E i \in 1..12 : swedish_months[i] = name
    THEN CHOOSE i \in 1..12 : swedish_months[i] = name
    ELSE dflt

LtmPrefix == << "L", "T", "M", " " >>

\* ltm_sort_key with the year taken verbatim (no century added)
ltm_sort_key_NoCentury(ltm_str) ==
    LET parts == StrSplit(StrRemove(ltm_str, LtmPrefix), "-")
    IN  IF ~IsIntStr(parts[1]) THEN << SentinelYear, SentinelMonth >>
        ELSE IF Len(parts) < 2 THEN << SentinelYear, SentinelMonth >>
        ELSE << IntOf(parts[1]), MonthGet(StrLower(parts[2]), DefaultMonth) >>
\* ltm_sort_key: (year, month), or (9999, 99) when the try block raises
ltm_sort_key(ltm_str) ==
    LET parts == StrSplit(StrRemove(ltm_str, LtmPrefix), "-")
    IN  IF ~IsIntStr(parts[1]) THEN << SentinelYear, SentinelMonth >>
        ELSE IF Len(parts) < 2 THEN << SentinelYear, SentinelMonth >>
        ELSE << IntOf(parts[1]) + CenturyBase,
                MonthGet(StrLower(parts[2]), DefaultMonth) >>

\* tuple comparison of two sort keys
KeyLess(a, b) == a[1] < b[1] \/ (a[1] = b[1] /\ a[2] < b[2])
KeyLeq(a, b) == a = b \/ KeyLess(a, b)

\* the sort key of every label of S, computed once
KeysOf(S) == [ x \in S |-> ltm_sort_key(x) ]

RECURSIVE SortedSetWith(_, _)
SortedSetWith(S, key) ==
    IF S = {} THEN { << >> }
    ELSE LET mins == { x \in S : \A y \in S : KeyLeq(key[x], key[y]) }
         IN  UNION { { << x >> \o t : t \in SortedSetWith(S \ {x}, key) } : x \in mins }

\* sorted(S, key=ltm_sort_key) for a set S: every order the sort can return,
\* the order of labels with equal keys being that of the set's iteration
SortedSetByKey(S) == SortedSetWith(S, KeysOf(S))

\* insertion of x after the last element whose key is <= that of x
RECURSIVE InsertByKey(_, _, _)
InsertByKey(s, x, key) ==
    IF s = << >> THEN << x >>
    ELSE IF KeyLess(key[x], key[s[Len(s)]])
         THEN InsertByKey(SubSeq(s, 1, Len(s) - 1), x, key) \o << s[Len(s)] >>
         ELSE s \o << x >>

RECURSIVE SortedListWith(_, _)
SortedListWith(s, key) ==
    IF s = << >> THEN << >>
    ELSE InsertByKey(SortedListWith(SubSeq(s, 1, Len(s) - 1), key), s[Len(s)], key)

\* sorted(list, key=ltm_sort_key): the stable sort of a list
SortedListByKey(s) == SortedListWith(s, KeysOf({ s[i] : i \in 1..Len(s) }))

\* the label the ledger writes for year yy (0..99) and month mi (1..12)
MkLabel(yy, mi) == LtmPrefix \o TwoDigits(yy) \o << "-" >> \o swedish_months[mi]
\* the same label with the month abbreviation in upper case or capitalised
MkLabelUpper(yy, mi) ==
    LtmPrefix \o TwoDigits(yy) \o << "-" >> \o StrUpper(swedish_months[mi])
MkLabelTitle(yy, mi) ==
    LtmPrefix \o TwoDigits(yy) \o << "-" >>
        \o << UpperChar(swedish_months[mi][1]) >> \o Tail(swedish_months[mi])

-----------------------------------------------------------------------------
(* Workbook cells *)

None == [t |-> "None"]
Num(n) == [t |-> "num", v |-> n]
Text(s) == [t |-> "str", s |-> s]
Date(y, m, d) == [t |-> "date", y |-> y, m |-> m, d |-> d]

\* isinstance(v, (int, float))
IsNumber(c) == c.t = "num"
\* bool(v)
Truthy(c) ==
    CASE c.t = "None" -> FALSE
      [] c.t = "num" -> c.v # 0
      [] c.t = "str" -> c.s # << >>
      [] OTHER -> TRUE

RECURSIVE NatToStr(_)
NatToStr(n) ==
    IF n < 10 THEN << DigitChars[n + 1] >>
    ELSE NatToStr(n \div 10) \o << DigitChars[(n % 10) + 1] >>

\* str(v) of a cell value
PyStr(c) ==
    CASE c.t = "str" -> c.s
      [] c.t = "num" -> IF c.v < 0 THEN << "-" >> \o NatToStr(-c.v) ELSE NatToStr(c.v)
      [] c.t = "None" -> << "N", "o", "n", "e" >>
      [] OTHER -> NatToStr(c.y) \o << "-" >> \o TwoDigits(c.m) \o << "-" >> \o TwoDigits(c.d)

\* h.strftime('%Y-%m'), kept as the pair (year, month): the day is dropped
MonthKey(h) == << h.y, h.m >>

\* sheet names of the master file ('Försäljning per artikel', 'Försäljning per kund')
ArtSheet == "Forsaljning per artikel"
KundSheet == "Forsaljning per kund"

\* A sheet is [header |-> cells of row 1 from column 3 on,
\*             rows   |-> rows 2.., each [c1, c2, vals (columns 3..)]]
FirstDataCol == 3
HeaderScanLimit == 100
MaxColumn(ws) == 2 + Len(ws.header)
MaxRow(ws) == 1 + Len(ws.rows)

\* ws.cell(r, c).value
CellAt(ws, r, c) ==
    IF r = 1
    THEN IF c >= FirstDataCol /\ c <= MaxColumn(ws) THEN ws.header[c - 2] ELSE None
    ELSE IF r - 1 > Len(ws.rows) THEN None
    ELSE LET row == ws.rows[r - 1]
         IN  IF c = 1 THEN row.c1
             ELSE IF c = 2 THEN row.c2
             ELSE IF c - 2 <= Len(row.vals) THEN row.vals[c - 2] ELSE None

-----------------------------------------------------------------------------
(* parse_master *)

Summa == << "S", "u", "m", "m", "a" >>
FY == << "F", "Y" >>
LTM == << "L", "T", "M" >>
YTD == << "Y", "T", "D" >>

Min(a, b) == IF a < b THEN a ELSE b
Max(a, b) == IF a > b THEN a ELSE b

\* the columns the header loop visits: range(3, min(ws.max_column + 1, 100))
ScannedCols(ws) == FirstDataCol .. (Min(MaxColumn(ws) + 1, HeaderScanLimit) - 1)

IsMonthHeader(h) == h.t = "date"
IsFyHeader(h) ==
    h.t # "None" /\ h.t # "date"
        /\ (StartsWith(PyStr(h), FY)
            \/ (~StartsWith(PyStr(h), LTM) /\ PyStr(h) = YTD))
IsLtmHeader(h) ==
    h.t # "None" /\ h.t # "date" /\ ~StartsWith(PyStr(h), FY) /\ StartsWith(PyStr(h), LTM)

\* a dict key -> column filled in column order: a later column overwrites
LastCol(cols) == CHOOSE c \in cols : \A d \in cols : d <= c
FyKey(h) == IF StartsWith(PyStr(h), FY) THEN PyStr(h) ELSE YTD
\* the branch of the header loop that takes header h, and the key it stores
IsKind(kind, h) ==
    CASE kind = "months" -> IsMonthHeader(h)
      [] kind = "fys" -> IsFyHeader(h)
      [] OTHER -> IsLtmHeader(h)
KeyOf(kind, h) ==
    CASE kind = "months" -> MonthKey(h)
      [] kind = "fys" -> FyKey(h)
      [] OTHER -> PyStr(h)
ColDict(ws, kind) ==
    LET cols == { c \in ScannedCols(ws) : IsKind(kind, CellAt(ws, 1, c)) }
        keys == { KeyOf(kind, CellAt(ws, 1, c)) : c \in cols }
    IN  [ k \in keys |-> LastCol({ c \in cols : KeyOf(kind, CellAt(ws, 1, c)) = k }) ]

HeaderMonths(ws) == ColDict(ws, "months")
HeaderFys(ws) == ColDict(ws, "fys")
HeaderLtms(ws) == ColDict(ws, "ltms")

\* a number is stored whether or not it is zero
StoresAnyNumber(c) == IsNumber(c)

\* the series of row r over the columns of dict cols:
\* "if v and isinstance(v, (int, float)): series[k] = v"
StoresCell(c) == Truthy(c) /\ IsNumber(c)
Series(ws, r, cols) ==
    LET kept == { k \in DOMAIN cols : StoresCell(CellAt(ws, r, cols[k])) }
    IN  [ k \in kept |-> CellAt(ws, r, cols[k]).v ]

\* any(d.values())
AnyValue(d) == \E k \in DOMAIN d : d[k] # 0

\* "if not art or art == 'Summa': continue"
SkipsId(id) == ~Truthy(id) \/ (id.t = "str" /\ id.s = Summa)

\* "if any(monthly.values()) or any(fy.values())": the row is appended
RetainsAnySeries(e) == AnyValue(e.monthly) \/ AnyValue(e.fy) \/ AnyValue(e.ltm)
Retains(e) == AnyValue(e.monthly) \/ AnyValue(e.fy)

\* x or ''
OrEmpty(c) == IF Truthy(c) THEN c ELSE Text(<< >>)

\* the three column dicts the header loop of a sheet builds
HeaderDicts(ws) ==
    [ months |-> HeaderMonths(ws), fys |-> HeaderFys(ws), ltms |-> HeaderLtms(ws) ]

ArticleOf(ws, r, h) ==
    [ artikelnr   |-> PyStr(CellAt(ws, r, 1)),
      artikelnamn |-> OrEmpty(CellAt(ws, r, 2)),
      monthly     |-> Series(ws, r, h.months),
      fy          |-> Series(ws, r, h.fys),
      ltm         |-> Series(ws, r, h.ltms) ]

CustomerOf(ws, r, h) ==
    [ kund    |-> PyStr(CellAt(ws, r, 2)),
      monthly |-> Series(ws, r, h.months),
      fy      |-> Series(ws, r, h.fys),
      ltm     |-> Series(ws, r, h.ltms) ]

\* the row loop "for r in range(2, ws.max_row + 1)" from row r on
RECURSIVE ArticlesFrom(_, _, _)
ArticlesFrom(ws, r, h) ==
    IF r > MaxRow(ws) THEN << >>
    ELSE IF SkipsId(CellAt(ws, r, 1)) THEN ArticlesFrom(ws, r + 1, h)
    ELSE LET a == ArticleOf(ws, r, h)
         IN  IF Retains(a) THEN << a >> \o ArticlesFrom(ws, r + 1, h)
             ELSE ArticlesFrom(ws, r + 1, h)

RECURSIVE CustomersFrom(_, _, _)
CustomersFrom(ws, r, h) ==
    IF r > MaxRow(ws) THEN << >>
    ELSE IF SkipsId(CellAt(ws, r, 2)) THEN CustomersFrom(ws, r + 1, h)
    ELSE LET cust == CustomerOf(ws, r, h)
         IN  IF Retains(cust) THEN << cust >> \o CustomersFrom(ws, r + 1, h)
             ELSE CustomersFrom(ws, r + 1, h)

ParsedArticles(w) ==
    IF ArtSheet \in DOMAIN w
    THEN ArticlesFrom(w[ArtSheet], 2, HeaderDicts(w[ArtSheet]))
    ELSE << >>
ParsedCustomers(w) ==
    IF KundSheet \in DOMAIN w
    THEN CustomersFrom(w[KundSheet], 2, HeaderDicts(w[KundSheet]))
    ELSE << >>

\* d.get(k, 0)
Get0(d, k) == IF k \in DOMAIN d THEN d[k] ELSE 0

RECURSIVE SumSeq(_)
SumSeq(s) == IF s = << >> THEN 0 ELSE s[1] + SumSeq(Tail(s))

\* all_m / all_l: the union of the entities' series keys
AllMonths(arts) == UNION { DOMAIN arts[i].monthly : i \in 1..Len(arts) }
AllLtms(custs) == UNION { DOMAIN custs[i].ltm : i \in 1..Len(custs) }

\* sum(a['monthly'].get(m, 0) for a in data['articles'])
MonthlyTotalFirstOnly(arts, m) == Get0(arts[1].monthly, m)
MonthlyTotal(arts, m) == SumSeq([ i \in 1..Len(arts) |-> Get0(arts[i].monthly, m) ])
\* sum(c['ltm'].get(l, 0) for c in data['customers'])
LtmTotalFirstOnly(custs, l) == Get0(custs[1].ltm, l)
LtmTotal(custs, l) == SumSeq([ i \in 1..Len(custs) |-> Get0(custs[i].ltm, l) ])

\* The Dataset built from the retained articles and customers when
\* sorted(all_l, key=ltm_sort_key) gives `order`; ltm_trend is a dict, kept as its insertion order and its values
Dataset(arts, custs, order) ==
        [ articles       |-> arts,
          customers      |-> custs,
          monthly_totals |-> [ m \in AllMonths(arts) |-> MonthlyTotal(arts, m) ],
          ltm_trend      |-> [ keys |-> order,
                               val  |-> [ l \in AllLtms(custs) |-> LtmTotal(custs, l) ] ] ]

\* every Dataset parse_master can return for workbook w
parse_master(w) ==
    LET arts == ParsedArticles(w)
        custs == ParsedCustomers(w)
    IN  { Dataset(arts, custs, order) : order \in SortedSetByKey(AllLtms(custs)) }

EmptyData ==
    [ articles |-> << >>, customers |-> << >>, monthly_totals |-> << >>,
      ltm_trend |-> [ keys |-> << >>, val |-> << >> ] ]

-----------------------------------------------------------------------------
(* Sorting lists of records: list.sort(key=...) and sorted(..., key=...) *)

\* insertion of index i after the last index whose key is <= keys[i]
RECURSIVE InsertIdx(_, _, _)
InsertIdx(perm, i, keys) ==
    IF perm = << >> THEN << i >>
    ELSE IF keys[i] < keys[perm[Len(perm)]]
         THEN InsertIdx(SubSeq(perm, 1, Len(perm) - 1), i, keys) \o << perm[Len(perm)] >>
         ELSE perm \o << i >>

RECURSIVE SortPermUpTo(_, _)
SortPermUpTo(keys, n) ==
    IF n = 0 THEN << >> ELSE InsertIdx(SortPermUpTo(keys, n - 1), n, keys)

\* stable sort of items by ascending integer keys (keys[i] is the key of items[i])
SortAsc(items, keys) ==
    LET p == SortPermUpTo(keys, Len(keys))
    IN  [ j \in 1..Len(items) |-> items[p[j]] ]
\* stable sort with reverse=True: equal keys keep their order
SortDesc(items, keys) == SortAsc(items, [ i \in 1..Len(keys) |-> -keys[i] ])

\* the list without a cap
WholeList(s, n) == s

\* s[:n]
FirstN(s, n) == SubSeq(s, 1, Min(n, Len(s)))
\* s[-n:] if len(s) >= n else s
LastN(s, n) == IF Len(s) >= n THEN SubSeq(s, Len(s) - n + 1, Len(s)) ELSE s

\* a float quotient kept as an exact fraction num/den, den > 0
Frac(n, d) == [ num |-> n, den |-> d ]
ZeroFrac == Frac(0, 1)

\* a.num/a.den < b.num/b.den, by the Euclidean expansion (no products)
RECURSIVE FracLess(_, _)
FracLess(a, b) ==
    LET qa == a.num \div a.den
        qb == b.num \div b.den
        ra == a.num % a.den
        rb == b.num % b.den
    IN  IF qa # qb THEN qa < qb
        ELSE IF rb = 0 THEN FALSE
        ELSE IF ra = 0 THEN TRUE
        ELSE FracLess(Frac(b.den, rb), Frac(a.den, ra))

\* integer keys ordered as the fractions fr[1..n] are
FracRanks(fr) ==
    [ i \in 1..Len(fr) |-> Cardinality({ j \in 1..Len(fr) : FracLess(fr[j], fr[i]) }) ]

-----------------------------------------------------------------------------
(* analyze_cohorts *)

NoMonth == << >>
Unknown == << "Unknown" >>

\* the branch of the if/elif chain a customer with values (cur_v, pre_v) takes
CohortCaseNoChurn(cur_v, pre_v) ==
    IF pre_v = 0 /\ cur_v > 0 THEN "new"
    ELSE IF cur_v - pre_v < 0 THEN "declining"
    ELSE IF cur_v - pre_v > 0 THEN "growing"
    ELSE "none"
CohortCase(cur_v, pre_v) ==
    IF pre_v > 0 /\ cur_v = 0 THEN "churned"
    ELSE IF pre_v = 0 /\ cur_v > 0 THEN "new"
    ELSE IF cur_v - pre_v < 0 THEN "declining"
    ELSE IF cur_v - pre_v > 0 THEN "growing"
    ELSE "none"

CohortOf(c, cur, prv) == CohortCase(Get0(c.ltm, cur), Get0(c.ltm, prv))

LastMonthNonZero(c) ==
    LET nz == { k \in DOMAIN c.monthly : c.monthly[k] # 0 }
    IN  IF nz = {} THEN NoMonth
        ELSE CHOOSE k \in nz : \A j \in nz : KeyLeq(j, k)
\* the last month of sorted(monthly.keys()) whose value is > 0, else None
LastMonth(c) ==
    LET pos == { k \in DOMAIN c.monthly : c.monthly[k] > 0 }
    IN  IF pos = {} THEN NoMonth
        ELSE CHOOSE k \in pos : \A j \in pos : KeyLeq(j, k)

\* (chg / pre_v * 100) if pre_v > 0 else 0
Pct(chg, pre_v) == IF pre_v > 0 THEN Frac(chg * 100, pre_v) ELSE ZeroFrac

ChurnedRec(c, cur, prv) ==
    [ kund |-> c.kund, previous |-> Get0(c.ltm, prv), current |-> Get0(c.ltm, cur),
      change |-> Get0(c.ltm, cur) - Get0(c.ltm, prv), last_month |-> LastMonth(c) ]
NewRec(c, cur, prv) == [ kund |-> c.kund, current |-> Get0(c.ltm, cur) ]
MoveRec(c, cur, prv) ==
    [ kund |-> c.kund, previous |-> Get0(c.ltm, prv), current |-> Get0(c.ltm, cur),
      change |-> Get0(c.ltm, cur) - Get0(c.ltm, prv),
      pct |-> Pct(Get0(c.ltm, cur) - Get0(c.ltm, prv), Get0(c.ltm, prv)) ]

\* the customers taking branch `which`, in Dataset order
InCohort(d, cur, prv, which) ==
    LET Takes(c) == CohortOf(c, cur, prv) = which
    IN  SelectSeq(d.customers, Takes)

\* the churn timeline without the records whose last_month is None
ChurnTimelineDated(churned) ==
    LET buckets == { churned[i].last_month : i \in 1..Len(churned) } \ { NoMonth }
        In(b) == { i \in 1..Len(churned) : churned[i].last_month = b }
    IN  [ b \in buckets |->
            [ count |-> Cardinality(In(b)),
              total |-> SumSeq([ i \in 1..Len(churned) |->
                                   IF i \in In(b) THEN churned[i].previous ELSE 0 ]) ] ]

\* the churn timeline: bucket -> {count, total}
ChurnTimeline(churned) ==
    LET Bucket(r) == IF r.last_month = NoMonth THEN Unknown ELSE r.last_month
        buckets == { Bucket(churned[i]) : i \in 1..Len(churned) }
        In(b) == { i \in 1..Len(churned) : Bucket(churned[i]) = b }
    IN  [ b \in buckets |->
            [ count |-> Cardinality(In(b)),
              total |-> SumSeq([ i \in 1..Len(churned) |->
                                   IF i \in In(b) THEN churned[i].previous ELSE 0 ]) ] ]

analyze_cohorts(d, cur, prv) ==
    LET ch == InCohort(d, cur, prv, "churned")
        de == InCohort(d, cur, prv, "declining")
        gr == InCohort(d, cur, prv, "growing")
        nw == InCohort(d, cur, prv, "new")
        churned   == [ i \in 1..Len(ch) |-> ChurnedRec(ch[i], cur, prv) ]
        declining == [ i \in 1..Len(de) |-> MoveRec(de[i], cur, prv) ]
        growing   == [ i \in 1..Len(gr) |-> MoveRec(gr[i], cur, prv) ]
        new       == [ i \in 1..Len(nw) |-> NewRec(nw[i], cur, prv) ]
        churnedS  == SortDesc(churned, [ i \in 1..Len(ch) |-> churned[i].previous ])
    IN  [ churned   |-> churnedS,
          declining |-> SortAsc(declining, [ i \in 1..Len(de) |-> declining[i].change ]),
          growing   |-> SortDesc(growing, [ i \in 1..Len(gr) |-> growing[i].change ]),
          new       |-> SortDesc(new, [ i \in 1..Len(nw) |-> new[i].current ]),
          churn_timeline |-> ChurnTimeline(churnedS) ]

NoCohorts ==
    [ churned |-> << >>, declining |-> << >>, growing |-> << >>, new |-> << >>,
      churn_timeline |-> << >> ]

-----------------------------------------------------------------------------
(* analyze_ltm_trajectories *)

MaterialityFloor == 50000
AtRiskMinDeclines == 3
ConsistentMinLen == 4
TrajectoryPoints == 6
TopTrajectories == 10
TrajectoryPeriods == 6
DecompositionPeriods == 12

RECURSIVE MaxSeq(_)
MaxSeq(s) == IF Len(s) = 1 THEN s[1] ELSE Max(s[1], MaxSeq(Tail(s)))

\* values_only of customer c over the window `recent`
ValuesOnly(c, recent) == [ i \in 1..Len(recent) |-> Get0(c.ltm, recent[i]) ]

\* "if max(values_only) < 50000: continue"
IsSmallStrict(v) == MaxSeq(v) <= MaterialityFloor
IsSmall(v) == MaxSeq(v) < MaterialityFloor

\* the backward loop from position i: strictly decreasing steps until a break
RECURSIVE DeclinesFrom(_, _)
DeclinesFrom(v, i) ==
    IF i < 2 THEN 0
    ELSE IF v[i] < v[i - 1] THEN 1 + DeclinesFrom(v, i - 1)
    ELSE 0
ConsecutiveDeclines(v) == DeclinesFrom(v, Len(v))

\* all(v[i] < v[i-1] for i in range(1, len(v)) if v[i-1] > 0)
AllDeclining(v) == \A i \in 2..Len(v) : v[i - 1] > 0 => v[i] < v[i - 1]

\* three declines whatever the last value is
IsAtRiskAnyCurrent(v) == ConsecutiveDeclines(v) >= AtRiskMinDeclines

\* "if consecutive_declines >= 3 and values_only[-1] > 0"
IsAtRisk(v) == ConsecutiveDeclines(v) >= AtRiskMinDeclines /\ v[Len(v)] > 0
\* "if all_declining and len(values_only) >= 4 and values_only[-1] > 0"
IsConsistentDecline(v) ==
    AllDeclining(v) /\ Len(v) >= ConsistentMinLen /\ v[Len(v)] > 0

PeakValRunStart(v, k) == v[Len(v) - k]
\* max(v[:-k]) if len(v) > k else v[0]
PeakVal(v, k) == IF Len(v) > k THEN MaxSeq(SubSeq(v, 1, Len(v) - k)) ELSE v[1]

\* ((a - b) / a * 100) if a > 0 else 0
DeclinePct(a, b) == IF a > 0 THEN Frac((a - b) * 100, a) ELSE ZeroFrac

AtRiskRec(c, v) ==
    [ kund |-> c.kund,
      current |-> v[Len(v)],
      peak |-> PeakVal(v, ConsecutiveDeclines(v)),
      decline_pct |-> DeclinePct(PeakVal(v, ConsecutiveDeclines(v)), v[Len(v)]),
      consecutive_months |-> ConsecutiveDeclines(v),
      trajectory |-> LastN(v, TrajectoryPoints) ]

ConsistentRec(c, v) ==
    [ kund |-> c.kund,
      start |-> v[1],
      current |-> v[Len(v)],
      decline_pct |-> DeclinePct(v[1], v[Len(v)]),
      trajectory |-> v ]

\* the at_risk list as the customer loop leaves it (before sorting and the cap)
AtRiskAll(d, recent) ==
    LET Risky(c) == ~IsSmall(ValuesOnly(c, recent)) /\ IsAtRisk(ValuesOnly(c, recent))
        sel == SelectSeq(d.customers, Risky)
    IN  [ i \in 1..Len(sel) |-> AtRiskRec(sel[i], ValuesOnly(sel[i], recent)) ]

\* the consistent_decline list as the customer loop leaves it
ConsistentAll(d, recent) ==
    LET Cons(c) == ~IsSmall(ValuesOnly(c, recent))
                       /\ IsConsistentDecline(ValuesOnly(c, recent))
        sel == SelectSeq(d.customers, Cons)
    IN  [ i \in 1..Len(sel) |-> ConsistentRec(sel[i], ValuesOnly(sel[i], recent)) ]

analyze_ltm_trajectories(d, num_periods) ==
    LET all_ltms == SortedListByKey(d.ltm_trend.keys)
        recent == LastN(all_ltms, num_periods)
        ar == AtRiskAll(d, recent)
        cd == ConsistentAll(d, recent)
    IN  IF Len(all_ltms) < 3
        THEN [ at_risk |-> << >>, consistent_decline |-> << >>, periods |-> << >> ]
        ELSE [ at_risk |->
                 FirstN(SortDesc(ar, FracRanks([ i \in 1..Len(ar) |-> ar[i].decline_pct ])),
                        TopTrajectories),
               consistent_decline |->
                 FirstN(SortDesc(cd, [ i \in 1..Len(cd) |-> cd[i].start - cd[i].current ]),
                        TopTrajectories),
               periods |-> recent ]

NoTrajectories == [ at_risk |-> << >>, consistent_decline |-> << >>, periods |-> << >> ]

-----------------------------------------------------------------------------
(* analyze_ltm_decomposition *)

\* the four running sums of one period pair, over the customers from index i on
RECURSIVE PairSums(_, _, _, _)
PairSums(custs, i, curr_ltm, prev_ltm) ==
    IF i > Len(custs)
    THEN [ churn_loss |-> 0, decline_loss |-> 0, growth_gain |-> 0, new_gain |-> 0 ]
    ELSE LET rest == PairSums(custs, i + 1, curr_ltm, prev_ltm)
             curr_v == Get0(custs[i].ltm, curr_ltm)
             prev_v == Get0(custs[i].ltm, prev_ltm)
         IN  IF prev_v > 0 /\ curr_v = 0
                 THEN [ rest EXCEPT !.churn_loss = @ + prev_v ]
             ELSE IF prev_v = 0 /\ curr_v > 0
                 THEN [ rest EXCEPT !.new_gain = @ + curr_v ]
             ELSE IF curr_v < prev_v
                 THEN [ rest EXCEPT !.decline_loss = @ + (prev_v - curr_v) ]
             ELSE IF curr_v > prev_v
                 THEN [ rest EXCEPT !.growth_gain = @ + (curr_v - prev_v) ]
             ELSE rest

\* the record appended for the pair (prev_ltm, curr_ltm)
DecompRecGrowthOnly(d, curr_ltm, prev_ltm) ==
    LET sums == PairSums(d.customers, 1, curr_ltm, prev_ltm)
    IN  [ period |-> curr_ltm,
          total_change |-> Get0(d.ltm_trend.val, curr_ltm) - Get0(d.ltm_trend.val, prev_ltm),
          churn |-> -sums.churn_loss,
          decline |-> -sums.decline_loss,
          growth |-> sums.growth_gain + sums.new_gain,
          new |-> 0 ]
DecompRec(d, curr_ltm, prev_ltm) ==
    LET sums == PairSums(d.customers, 1, curr_ltm, prev_ltm)
    IN  [ period |-> curr_ltm,
          total_change |-> Get0(d.ltm_trend.val, curr_ltm) - Get0(d.ltm_trend.val, prev_ltm),
          churn |-> -sums.churn_loss,
          decline |-> -sums.decline_loss,
          growth |-> sums.growth_gain,
          new |-> sums.new_gain ]

\* recent_ltms = all_ltms[-num_periods:] if len(all_ltms) >= num_periods else all_ltms
DecompositionWindow(all_ltms, num_periods) == LastN(all_ltms, num_periods)

analyze_ltm_decomposition(d, num_periods) ==
    LET all_ltms == SortedListByKey(d.ltm_trend.keys)
        recent == DecompositionWindow(all_ltms, num_periods)
    IN  IF Len(all_ltms) < 2
        THEN [ periods |-> << >>, decomposition |-> << >> ]
        ELSE [ periods |-> Tail(recent),
               decomposition |->
                 [ i \in 1..(Len(recent) - 1) |-> DecompRec(d, recent[i + 1], recent[i]) ] ]

-----------------------------------------------------------------------------
(* get_top20_art, get_top20_cust *)

Top20Limit == 20

Top20ArtRec(a, ltm_key) ==
    [ artikelnr |-> a.artikelnr, artikelnamn |-> a.artikelnamn,
      value |-> Get0(a.ltm, ltm_key) ]

get_top20_art(d, ltm_key) ==
    LET Sold(a) == Get0(a.ltm, ltm_key) > 0
        sel == SelectSeq(d.articles, Sold)
        arts == [ i \in 1..Len(sel) |-> Top20ArtRec(sel[i], ltm_key) ]
    IN  FirstN(SortDesc(arts, [ i \in 1..Len(arts) |-> arts[i].value ]), Top20Limit)

Top20CustRec(c, cur, prv) ==
    [ kund |-> c.kund, current |-> Get0(c.ltm, cur), previous |-> Get0(c.ltm, prv),
      change |-> Get0(c.ltm, cur) - Get0(c.ltm, prv) ]

\* the first twenty in sheet order
get_top20_cust_Unsorted(d, cur, prv) ==
    LET Buys(c) == Get0(c.ltm, cur) > 0
        sel == SelectSeq(d.customers, Buys)
    IN  FirstN([ i \in 1..Len(sel) |-> Top20CustRec(sel[i], cur, prv) ], Top20Limit)

get_top20_cust(d, cur, prv) ==
    LET Buys(c) == Get0(c.ltm, cur) > 0
        sel == SelectSeq(d.customers, Buys)
        custs == [ i \in 1..Len(sel) |-> Top20CustRec(sel[i], cur, prv) ]
    IN  FirstN(SortDesc(custs, [ i \in 1..Len(custs) |-> custs[i].current ]), Top20Limit)

-----------------------------------------------------------------------------
(* classify_customer_industry *)

OtherGeneral == << "O", "t", "h", "e", "r", "/", "G", "e", "n", "e", "r", "a", "l" >>

\* the sectors in their declared order, each with its keywords in order
industry_keywords ==
    << [ industry |-> << "A", "u", "t", "o", "m", "o", "t", "i", "v", "e", "/", "E", "V" >>,
         keywords |-> << << "v", "o", "l", "v", "o" >>,
                       << "s", "c", "a", "n", "i", "a" >>,
                       << "a", "u", "t", "o", "l", "i", "v" >>,
                       << "a", "u", "t", "o", "m", "o", "t", "i", "v", "e" >>,
                       << "c", "a", "r", "-", "o", "-", "l", "i", "n", "e", "r" >>,
                       << "m", "o", "t", "o", "r" >>,
                       << "v", "e", "h", "i", "c", "l", "e" >>,
                       << "p", "o", "l", "e", "s", "t", "a", "r" >> >> ],
       [ industry |-> << "M", "a", "n", "u", "f", "a", "c", "t", "u", "r", "i", "n", "g", "/", "I", "n", "d", "u", "s", "t", "r", "i", "a", "l" >>,
         keywords |-> << << "m", "a", "n", "u", "f", "a", "c", "t", "u", "r", "i", "n", "g" >>,
                       << "i", "n", "d", "u", "s", "t", "r", "i" >>,
                       << "p", "r", "o", "d", "u", "k", "t", "i", "o", "n" >>,
                       << "v", "e", "r", "k", "s", "t", "a", "d" >>,
                       << "m", "a", "s", "k", "i", "n" >>,
                       << "t", "o", "o", "l" >>,
                       << "s", "a", "n", "d", "v", "i", "k" >>,
                       << "a", "t", "l", "a", "s", " ", "c", "o", "p", "c", "o" >>,
                       << "s", "k", "f" >>,
                       << "a", "b", "b" >>,
                       << "s", "e", "c", "o", " ", "t", "o", "o", "l" >> >> ],
       [ industry |-> << "E", "l", "e", "c", "t", "r", "o", "n", "i", "c", "s", "/", "T", "e", "c", "h" >>,
         keywords |-> << << "e", "l", "e", "k", "t", "r" >>,
                       << "e", "l", "e", "c", "t", "r", "o", "n", "i", "c" >>,
                       << "t", "e", "c", "h" >>,
                       << "s", "e", "n", "s", "o", "r" >>,
                       << "c", "i", "r", "c", "u", "i", "t" >>,
                       << "p", "c", "b" >>,
                       << "k", "i", "t", "r", "o", "n" >>,
                       << "z", "o", "l", "l", "n", "e", "r" >>,
                       << "g", "p", "v" >>,
                       << "k", "e", "b", "a" >>,
                       << "a", "u", "t", "o", "m", "a", "t", "i", "o", "n" >>,
                       << "a", "m", "a", "d", "a" >> >> ],
       [ industry |-> << "M", "e", "d", "i", "c", "a", "l", "/", "H", "e", "a", "l", "t", "h", "c", "a", "r", "e" >>,
         keywords |-> << << "m", "e", "d", "i", "c", "a", "l" >>,
                       << "m", "e", "d", "i", "c" >>,
                       << "h", "e", "a", "l", "t", "h" >>,
                       << "p", "h", "a", "r", "m", "a" >>,
                       << "h", "o", "s", "p", "i", "t", "a", "l" >>,
                       << "d", "e", "n", "t", "a", "l" >>,
                       << "m", "e", "d", "i" >>,
                       << "g", "a", "m", "b", "r", "o" >> >> ],
       [ industry |-> << "E", "n", "e", "r", "g", "y", "/", "W", "i", "n", "d" >>,
         keywords |-> << << "e", "n", "e", "r", "g", "y" >>,
                       << "e", "n", "e", "r", "g", "i" >>,
                       << "w", "i", "n", "d" >>,
                       << "s", "o", "l", "a", "r" >>,
                       << "p", "o", "w", "e", "r" >>,
                       << "k", "r", "a", "f", "t" >>,
                       << "v", "a", "t", "t", "e", "n", "f", "a", "l", "l" >>,
                       << "n", "i", "b", "e" >>,
                       << "h", "e", "a", "t", " ", "p", "u", "m", "p" >>,
                       << "l", "i", "n", "a", "k" >> >> ],
       [ industry |-> << "M", "i", "n", "i", "n", "g", "/", "S", "t", "e", "e", "l" >>,
         keywords |-> << << "m", "i", "n", "i", "n", "g" >>,
                       << "g", "r", "u", "v" >>,
                       << "s", "t", "e", "e", "l" >>,
                       << "s", "t", "å", "l" >>,
                       << "m", "e", "t", "a", "l", "l" >>,
                       << "m", "e", "t", "a", "l" >>,
                       << "s", "s", "a", "b" >>,
                       << "l", "k", "a", "b" >>,
                       << "b", "o", "l", "i", "d", "e", "n" >>,
                       << "m", "e", "t", "s", "o" >> >> ],
       [ industry |-> << "F", "o", "o", "d", "/", "P", "a", "c", "k", "a", "g", "i", "n", "g" >>,
         keywords |-> << << "f", "o", "o", "d" >>,
                       << "l", "i", "v", "s", "m", "e", "d", "e", "l" >>,
                       << "t", "e", "t", "r", "a", " ", "p", "a", "k" >>,
                       << "p", "a", "c", "k", "a", "g", "i", "n", "g" >>,
                       << "f", "ö", "r", "p", "a", "c", "k", "n", "i", "n", "g" >>,
                       << "m", "e", "t", "o", "s" >> >> ],
       [ industry |-> << "C", "o", "n", "s", "t", "r", "u", "c", "t", "i", "o", "n", "/", "B", "u", "i", "l", "d", "i", "n", "g" >>,
         keywords |-> << << "b", "y", "g", "g" >>,
                       << "c", "o", "n", "s", "t", "r", "u", "c", "t", "i", "o", "n" >>,
                       << "b", "u", "i", "l", "d", "i", "n", "g" >>,
                       << "f", "a", "s", "t", "i", "g", "h", "e", "t" >>,
                       << "p", "r", "o", "p", "e", "r", "t", "y" >> >> ],
       [ industry |-> << "D", "e", "f", "e", "n", "s", "e", "/", "A", "e", "r", "o", "s", "p", "a", "c", "e" >>,
         keywords |-> << << "d", "e", "f", "e", "n", "s", "e" >>,
                       << "f", "ö", "r", "s", "v", "a", "r" >>,
                       << "m", "i", "l", "i", "t", "a", "r", "y" >>,
                       << "a", "e", "r", "o", "s", "p", "a", "c", "e" >>,
                       << "f", "l", "y", "g" >>,
                       << "s", "a", "a", "b" >> >> ],
       [ industry |-> << "L", "o", "g", "i", "s", "t", "i", "c", "s", "/", "T", "r", "a", "n", "s", "p", "o", "r", "t" >>,
         keywords |-> << << "t", "r", "a", "n", "s", "p", "o", "r", "t" >>,
                       << "l", "o", "g", "i", "s", "t" >>,
                       << "s", "h", "i", "p", "p", "i", "n", "g" >>,
                       << "f", "r", "a", "k", "t" >>,
                       << "t", "r", "u", "c", "k", "c", "a", "m" >> >> ] >>

\* kw in name_lower
Contains(kw, s) ==
    \E k \in 0..(Len(s) - Len(kw)) : SubSeq(s, k + 1, k + Len(kw)) = kw

\* not name or str(name).strip() == ''
IsBlankName(name) == ~Truthy(name) \/ StrStrip(PyStr(name)) = << >>

NameAsIs(name) == PyStr(name)
\* name_lower = str(name).lower()
name_lower(name) == StrLower(PyStr(name))

\* the inner loop over the keywords of sector i reaches its return
SectorMatches(s, i) ==
    \E j \in 1..Len(industry_keywords[i].keywords) :
        Contains(industry_keywords[i].keywords[j], s)

\* the outer loop from sector i on; the default after the last sector
RECURSIVE IndustryLoop(_, _)
IndustryLoop(s, i) ==
    IF i > Len(industry_keywords) THEN OtherGeneral
    ELSE IF SectorMatches(s, i) THEN industry_keywords[i].industry
    ELSE IndustryLoop(s, i + 1)

classify_customer_industry(name) ==
    IF IsBlankName(name) THEN OtherGeneral
    ELSE IndustryLoop(name_lower(name), 1)

-----------------------------------------------------------------------------
(* The industry aggregation of the "Generate Dashboard" handler *)

\* only a customer with a current value is counted
IndustryCountsCurrent(c, cur, prv) == Get0(c.ltm, cur) # 0

\* "if curr_v == 0 and prev_v == 0: continue" does not skip customer c
IndustryCounts(c, cur, prv) == ~(Get0(c.ltm, cur) = 0 /\ Get0(c.ltm, prv) = 0)

\* the sectors in the order industry_stats first meets them
RECURSIVE FirstSeen(_)
FirstSeen(inds) ==
    IF inds = << >> THEN << >>
    ELSE LET front == FirstSeen(SubSeq(inds, 1, Len(inds) - 1))
             x == inds[Len(inds)]
         IN  IF \E i \in 1..Len(front) : front[i] = x THEN front ELSE Append(front, x)

\* industry_stats[industry] once the customer loop has ended
StatsOf(ind, cs, cur, prv) ==
    LET In(c) == classify_customer_industry(Text(c.kund)) = ind
        mine == SelectSeq(cs, In)
        Of(i, f) == IF f = "curr" THEN Get0(mine[i].ltm, cur) ELSE Get0(mine[i].ltm, prv)
    IN  [ industry |-> ind,
          curr |-> SumSeq([ i \in 1..Len(mine) |-> Of(i, "curr") ]),
          prev |-> SumSeq([ i \in 1..Len(mine) |-> Of(i, "prev") ]),
          count |-> Len(mine),
          churned_rev |-> SumSeq([ i \in 1..Len(mine) |->
                            IF Of(i, "curr") = 0 /\ Of(i, "prev") > 0 THEN Of(i, "prev") ELSE 0 ]),
          new_rev |-> SumSeq([ i \in 1..Len(mine) |->
                            IF ~(Of(i, "curr") = 0 /\ Of(i, "prev") > 0)
                                  /\ Of(i, "curr") > 0 /\ Of(i, "prev") = 0
                            THEN Of(i, "curr") ELSE 0 ]) ]

\* industry_stats as a list of its entries in insertion order
IndustryStats(d, cur, prv) ==
    LET Counts(c) == IndustryCounts(c, cur, prv)
        cs == SelectSeq(d.customers, Counts)
        seen == FirstSeen([ i \in 1..Len(cs) |-> classify_customer_industry(Text(cs[i].kund)) ])
    IN  [ i \in 1..Len(seen) |-> StatsOf(seen[i], cs, cur, prv) ]

\* one entry of industry_data
IndustryRec(st) ==
    [ industry |-> st.industry,
      curr_ltm |-> st.curr,
      change_pct |-> IF st.prev > 0 THEN Frac((st.curr - st.prev) * 100, st.prev) ELSE ZeroFrac,
      churned_rev |-> st.churned_rev,
      count |-> st.count ]

\* industry_data: the entries sorted by curr, largest first, those with
\* curr > 0 or prev > 0 only
IndustryData(stats) ==
    LET sorted == SortDesc(stats, [ i \in 1..Len(stats) |-> stats[i].curr ])
        Shown(st) == st.curr > 0 \/ st.prev > 0
        kept == SelectSeq(sorted, Shown)
    IN  [ i \in 1..Len(kept) |-> IndustryRec(kept[i]) ]

\* data['industry_analysis'] = industry_data
WithIndustry(d, industry_data) ==
    [ articles |-> d.articles, customers |-> d.customers,
      monthly_totals |-> d.monthly_totals, ltm_trend |-> d.ltm_trend,
      industry_analysis |-> industry_data ]

-----------------------------------------------------------------------------
(* generate_ai_commentary *)

\* a Python dict of commentary texts, as a set of (key, text) pairs
Dict(pairs) == [ t |-> "dict", d |-> pairs ]
EmptyMap == Dict({})

NoApiKey == << >>
SomeApiKey == << "s", "k" >>

StatusOk == 200

\* requests.post raised (connection error, timeout)
Raised(what) == [ kind |-> "raise", what |-> what ]
\* requests.post returned: the status, whether the body has content[0].text,
\* and that text
Answer(status, has_content, text) ==
    [ kind |-> "answer", status |-> status, has_content |-> has_content, text |-> text ]

\* re.search(r'\{[\s\S]*\}', content): from the first "{" to the last "}"
OpenBraces(t) == { i \in 1..Len(t) : t[i] = "{" }
CloseBraces(t) == { i \in 1..Len(t) : t[i] = "}" }
JsonMatches(t) == \E i \in OpenBraces(t), j \in CloseBraces(t) : i < j
JsonMatch(t) ==
    LET i == CHOOSE x \in OpenBraces(t) : \A k \in OpenBraces(t) : x <= k
        j == CHOOSE x \in CloseBraces(t) : \A k \in CloseBraces(t) : k <= x
    IN  SubSeq(t, i, j)

\* the JSON objects json.loads accepts among the texts of the model
JsonSummary == << "{", "\"", "s", "\"", ":", "\"", "o", "k", "\"", "}" >>
JsonEmpty == << "{", "}" >>
JsonParses(t) == t \in { JsonSummary, JsonEmpty }
JsonLoads(t) == IF t = JsonSummary THEN Dict({ << "s", "ok" >> }) ELSE EmptyMap

\* the body of "if response.status_code == 200:"; a missing content field
\* raises KeyError, a text json.loads rejects raises JSONDecodeError, both
\* caught by "except Exception"; with no match the function falls off its end
CommentaryOf200(r) ==
    IF ~r.has_content THEN EmptyMap
    ELSE IF ~JsonMatches(r.text) THEN None
    ELSE IF ~JsonParses(JsonMatch(r.text)) THEN EmptyMap
    ELSE JsonLoads(JsonMatch(r.text))

generate_ai_commentary(key, r) ==
    IF key = << >> THEN EmptyMap
    ELSE IF r.kind = "raise" THEN EmptyMap
    ELSE IF r.status = StatusOk THEN CommentaryOf200(r)
    ELSE EmptyMap

\* the answers of the API: the texts have no brace, braces in the wrong order,
\* an unclosed brace, braces around no JSON, a JSON object inside a sentence,
\* the empty object, and a JSON object followed by a second brace pair
ApiTexts ==
    { << "n", "o" >>,
      << "}", "{" >>,
      << "{", "x" >>,
      << "a", "{", "x", "}", "b" >>,
      << "a" >> \o JsonSummary \o << "b" >>,
      JsonEmpty,
      JsonSummary \o << "{", "x", "}" >> }
ApiStatuses == { StatusOk, 401, 500 }
ApiResponses ==
    { Raised("ConnectionError"), Raised("Timeout") }
        \cup { Answer(st, hc, tx) : st \in ApiStatuses, hc \in BOOLEAN, tx \in ApiTexts }

-----------------------------------------------------------------------------
(* generate_html: the computed bindings of the report *)

Abs(n) == IF n < 0 THEN -n ELSE n

\* "if commentary is None: commentary = {}"
CommentaryOrEmpty(c) == IF c = None THEN EmptyMap ELSE c

\* the template divides by total_ltm without a guard (the "% of Total" cells
\* and the article concentration badge): ZeroDivisionError when it is 0
HtmlRaisesOnNone(d, curr_ltm, c) == Get0(d.ltm_trend.val, curr_ltm) = 0 \/ c = None
HtmlRaises(d, curr_ltm, c) == Get0(d.ltm_trend.val, curr_ltm) = 0

generate_html(d, curr_ltm, prev_ltm, c) ==
    LET co == analyze_cohorts(d, curr_ltm, prev_ltm)
        total_ltm == Get0(d.ltm_trend.val, curr_ltm)
        prev_ltm_val == Get0(d.ltm_trend.val, prev_ltm)
        IsActive(cu) == Get0(cu.ltm, curr_ltm) > 0
        top20_cust == get_top20_cust(d, curr_ltm, prev_ltm)
        top20_art == get_top20_art(d, curr_ltm)
    IN  [ commentary   |-> CommentaryOrEmpty(c),
          total_ltm    |-> total_ltm,
          prev_ltm_val |-> prev_ltm_val,
          yoy_chg      |-> total_ltm - prev_ltm_val,
          cohorts      |-> co,
          trajectories |-> analyze_ltm_trajectories(d, TrajectoryPeriods),
          ltm_decomp   |-> analyze_ltm_decomposition(d, DecompositionPeriods),
          churn_loss   |-> SumSeq([ i \in 1..Len(co.churned) |-> co.churned[i].previous ]),
          decline_loss |-> Abs(SumSeq([ i \in 1..Len(co.declining) |-> co.declining[i].change ])),
          growth_gain  |-> SumSeq([ i \in 1..Len(co.growing) |-> co.growing[i].change ]),
          new_gain     |-> SumSeq([ i \in 1..Len(co.new) |-> co.new[i].current ]),
          active       |-> Len(SelectSeq(d.customers, IsActive)),
          top20_cust   |-> top20_cust,
          top20_art    |-> top20_art,
          conc_pct     |->
              IF total_ltm > 0
              THEN Frac(SumSeq([ i \in 1..Len(top20_cust) |-> top20_cust[i].current ]) * 100,
                        total_ltm)
              ELSE ZeroFrac,
          art_conc_pct |->
              Frac(SumSeq([ i \in 1..Len(top20_art) |-> top20_art[i].value ]) * 100,
                   total_ltm) ]

NoHtml == << >>

-----------------------------------------------------------------------------
(* The "Generate Dashboard" handler of the Intelligence page *)

NoKey == << >>
NoError == << >>
NoResponse == << >>

\* the file openpyxl.load_workbook cannot read
BadFile == [ corrupt |-> TRUE ]

ErrBadFile == << "B", "a", "d", "Z", "i", "p", "F", "i", "l", "e" >>
ErrNoLtm ==
    << "C", "o", "u", "l", "d", " ", "n", "o", "t", " ", "f", "i", "n", "d", " ",
       "L", "T", "M", " ", "d", "a", "t", "a", " ", "i", "n", " ", "f", "i", "l", "e" >>
ErrZeroDivision ==
    << "d", "i", "v", "i", "s", "i", "o", "n", " ", "b", "y", " ", "z", "e", "r", "o" >>

\* the previous period taken as the oldest key whatever the number of keys
PrevOfOldest(l) == l[1]

\* ltms[-13] if len(ltms) > 12 else ltms[0]
PrevOf(l) == IF Len(l) > 12 THEN l[Len(l) - 12] ELSE l[1]

\* st.session_state['intel_html'] = html; ['intel_data'] = data; ['intel_ltm'] = (curr, prev)
StoredHtmlOnly(s, h, d, c, p) == ("intel_html" :> h) @@ s
Stored(s, h, d, c, p) ==
    ("intel_html" :> h) @@ ("intel_data" :> d) @@ ("intel_ltm" :> << c, p >>) @@ s

\* wb = load_workbook(f); data = parse_master(wb); a file that cannot be
\* read raises, and "except Exception as e: st.error(str(e))" reports it
LoadAndParse ==
    /\ pc = "start"
    /\ IF wb = BadFile
       THEN /\ error' = ErrBadFile
            /\ pc' = "error"
            /\ UNCHANGED data
       ELSE /\ \E d \in parse_master(wb) : data' = d
            /\ pc' = "parsed"
            /\ UNCHANGED error
    /\ UNCHANGED << wb, ltms, curr, prev, cohorts, trajectories, html, api_key, response,
                    commentary, session_state, labels, sorted_labels, industry_stats, input, output >>

\* ltms = sorted(...); curr = ltms[-1]; prev = ...; "if curr and prev:"
SelectPeriods ==
    /\ pc = "parsed"
    /\ data.ltm_trend.keys # << >>
    /\ ltms' = SortedListByKey(data.ltm_trend.keys)
    /\ curr' = ltms'[Len(ltms')]
    /\ prev' = PrevOf(ltms')
    /\ pc' = "selected"
    /\ UNCHANGED << wb, data, cohorts, trajectories, html, api_key, response, commentary,
                    error, session_state, labels, sorted_labels, industry_stats, input, output >>

\* "else: st.error('Could not find LTM data in file')"
NoLtmData ==
    /\ pc = "parsed"
    /\ data.ltm_trend.keys = << >>
    /\ ltms' = << >>
    /\ error' = ErrNoLtm
    /\ pc' = "no_ltm"
    /\ UNCHANGED << wb, data, curr, prev, cohorts, trajectories, html, api_key, response,
                    commentary, session_state, labels, sorted_labels, industry_stats, input, output >>

\* cohorts = analyze_cohorts(data, curr, prev)
AnalyzeCohorts ==
    /\ pc = "selected"
    /\ cohorts' = analyze_cohorts(data, curr, prev)
    /\ pc' = "cohorts"
    /\ UNCHANGED << wb, data, ltms, curr, prev, trajectories, html, api_key, response,
                    commentary, error, session_state, labels, sorted_labels, industry_stats, input, output >>

\* trajectories = analyze_ltm_trajectories(data, num_periods=6)
AnalyzeTrajectories ==
    /\ pc = "cohorts"
    /\ trajectories' = analyze_ltm_trajectories(data, TrajectoryPeriods)
    /\ pc' = "trajectories"
    /\ UNCHANGED << wb, data, ltms, curr, prev, cohorts, html, api_key, response,
                    commentary, error, session_state, labels, sorted_labels, industry_stats, input, output >>

\* the industry loop, industry_data, chart_data (local, read only) and the store
\* data['industry_analysis'] = industry_data
AnalyzeIndustries ==
    /\ pc = "trajectories"
    /\ industry_stats' = IndustryStats(data, curr, prev)
    /\ data' = WithIndustry(data, IndustryData(industry_stats'))
    /\ pc' = "industries"
    /\ UNCHANGED << wb, ltms, curr, prev, cohorts, trajectories, html, api_key, response,
                    commentary, error, session_state, labels, sorted_labels, input, output >>

\* commentary = {}; "if api_key: commentary = generate_ai_commentary(api_key, chart_data)"
Commentary ==
    /\ pc = "industries"
    /\ IF api_key # << >>
       THEN \E r \in ApiResponses :
               /\ response' = r
               /\ commentary' = generate_ai_commentary(api_key, r)
       ELSE /\ commentary' = EmptyMap
            /\ UNCHANGED response
    /\ pc' = "commentary"
    /\ UNCHANGED << wb, data, ltms, curr, prev, cohorts, trajectories, html, api_key,
                    error, session_state, labels, sorted_labels, industry_stats, input, output >>

\* html = generate_html(data, curr, prev, commentary) and the three stores of
\* the session; an exception of generate_html is reported by st.error(str(e))
GenerateHtml ==
    /\ pc = "commentary"
    /\ IF HtmlRaises(data, curr, commentary)
       THEN /\ error' = ErrZeroDivision
            /\ pc' = "error"
            /\ UNCHANGED << html, session_state >>
       ELSE /\ html' = generate_html(data, curr, prev, commentary)
            /\ session_state' = Stored(session_state, html', data, curr, prev)
            /\ pc' = "html"
            /\ UNCHANGED error
    /\ UNCHANGED << wb, data, ltms, curr, prev, cohorts, trajectories, api_key, response,
                    commentary, labels, sorted_labels, industry_stats, input, output >>

Next ==
    \/ LoadAndParse
    \/ SelectPeriods
    \/ NoLtmData
    \/ AnalyzeCohorts
    \/ AnalyzeTrajectories
    \/ AnalyzeIndustries
    \/ Commentary
    \/ GenerateHtml

-----------------------------------------------------------------------------
(* Workbooks *)

\* all sequences over S of length at most n
SeqsUpTo(S, n) == UNION { [ 1..k -> S ] : k \in 0..n }

\* sheets whose first row is drawn from `rich` and the others from `fill`
Sheets(header, rich, fill) ==
    { [ header |-> header, rows |-> << >> ] }
        \cup { [ header |-> header, rows |-> << r >> \o f ] :
                 r \in rich, f \in SeqsUpTo(fill, MaxRows - 1) }

Row(c1, c2, vals) == [ c1 |-> c1, c2 |-> c2, vals |-> vals ]

TxtA1 == << "A", "1" >>
TxtK1 == << "K", "1" >>
TxtK2 == << "K", "2" >>
TxtX == << "x" >>

IdCells == { None, Text(<< >>), Text(Summa), Text(TxtK1), Num(7), Num(0) }

\* the per-article sheet: two months, a fiscal year, YTD, one LTM column
ArtHeader ==
    << Date(2025, 1, 15), Date(2025, 2, 1), Text(FY \o << "2", "5" >>), Text(YTD),
       Text(MkLabel(25, 11)) >>
ArtRichRows ==
    { Row(id, Text(TxtX), << m1, m2, fy, None, l >>) :
        id \in { None, Text(Summa), Text(TxtA1) },
        m1 \in { None, Num(0), Num(5), Num(-2), Text(TxtX) },
        m2 \in { None, Num(3) },
        fy \in { None, Num(8) },
        l  \in { None, Num(4) } }
ArtFillRows ==
    { Row(Text(TxtA1), None, << Num(5), None, None, Num(2), Num(6) >>),
      Row(Text(TxtK2), Text(TxtX), << None, None, None, None, Num(6) >>) }
ArtFixedSheet ==
    [ header |-> ArtHeader,
      rows |-> << Row(Text(TxtA1), None, << Num(5), Num(3), None, None, Num(6) >>) >> ]

\* the per-customer sheet: a month, a fiscal year, three LTM columns out of
\* chronological order and an unrecognised header
KundHeader ==
    << Date(2025, 1, 15), Text(FY \o << "2", "5" >>), Text(MkLabel(24, 11)), Text(MkLabel(25, 11)),
       Text(MkLabel(25, 10)), Text(<< "B", "o", "r", "t", "f", "a", "l", "l" >>) >>
LtmCells == { None, Num(0), Num(-3), Num(4), Num(9) }
KundIdRows ==
    { Row(None, id, << m, fy, l, Num(4), None, Num(1) >>) :
        id \in IdCells,
        m  \in { None, Num(0), Num(5), Text(TxtX) },
        fy \in { None, Num(8) },
        l  \in { None, Num(9) } }
KundLtmRows ==
    { Row(None, Text(TxtK1), << Num(5), None, p, c, o, None >>) :
        p \in LtmCells, c \in LtmCells, o \in { None, Num(6) } }
KundFillRows ==
    { Row(None, Text(TxtK2), << Num(5), None, Num(9), None, Num(2), None >>),
      Row(None, Text(TxtK2), << None, Num(8), Num(4), Num(9), None, None >>),
      Row(None, Text(TxtK1), << Num(-2), None, None, Num(4), Num(4), None >>),
      Row(None, Text(TxtK2), << None, None, Num(9), Num(9), Num(9), None >>) }
KundFixedSheet ==
    [ header |-> KundHeader,
      rows |-> << Row(None, Text(TxtK1), << Num(5), None, Num(4), Num(9), None, None >>) >> ]

\* workbooks with one varied sheet and the other sheet fixed or absent
SmallWorkbooks ==
    { (ArtSheet :> a) @@ (KundSheet :> KundFixedSheet) :
        a \in Sheets(ArtHeader, ArtRichRows, ArtFillRows) }
    \cup { (ArtSheet :> a) : a \in Sheets(ArtHeader, ArtRichRows, ArtFillRows) }
    \cup { (ArtSheet :> ArtFixedSheet) @@ (KundSheet :> k) :
             k \in Sheets(KundHeader, KundIdRows \cup KundLtmRows, KundFillRows) }
    \cup { (KundSheet :> k) :
             k \in Sheets(KundHeader, KundIdRows \cup KundLtmRows, KundFillRows) }

\* the label of the j-th monthly cut-off counted from January 2024
CutOffLabel(j) == MkLabel(24 + ((j - 1) \div 12), ((j - 1) % 12) + 1)

\* wide workbooks: k LTM columns, in chronological or in reverse column order,
\* one or two customers, each LTM series following one of a few patterns
WidePattern(p, j) ==
    CASE p = 1 -> 5
      [] p = 2 -> j
      [] p = 3 -> IF j % 2 = 1 THEN 7 ELSE 0
      [] p = 4 -> 20 - j
      [] p = 5 -> IF j < 3 THEN 0 ELSE 9
      [] OTHER -> IF j % 3 = 0 THEN -3 ELSE 4
WidePatterns == 1..6
WideCol(k, rev, i) == IF rev THEN k + 1 - i ELSE i
WideSheet(k, rev, pats) ==
    [ header |-> << Date(2025, 1, 15) >>
                    \o [ i \in 1..k |-> Text(CutOffLabel(WideCol(k, rev, i))) ],
      rows |-> [ r \in 1..Len(pats) |->
                   Row(None, Text(IF r = 1 THEN TxtK1 ELSE TxtK2),
                       << Num(5) >> \o [ i \in 1..k |->
                                           Num(WidePattern(pats[r], WideCol(k, rev, i))) ]) ] ]
WideWorkbooks ==
    { (ArtSheet :> ArtFixedSheet) @@ (KundSheet :> WideSheet(k, rev, pats)) :
        k \in 0..MaxLtmCols, rev \in BOOLEAN,
        pats \in SeqsUpTo(WidePatterns, 2) \ { << >> } }

\* trajectory workbooks: customer K1 with MaxWindowCols monthly cut-offs whose
\* values are a scale times a small pattern (the last four columns over 0..4,
\* the older ones all 0 or all 5), with or without a second, immaterial
\* customer K2 that has a value at every cut-off; the window of the
\* specification's example; and a longer window with an early peak
TrajScales == { 10000, 12500 }
TrajPatterns ==
    { p \in [ 1..MaxWindowCols -> 0..5 ] :
        \A i \in 1..MaxWindowCols :
            IF i > MaxWindowCols - 4 THEN p[i] \in 0..4 ELSE p[i] \in { 0, 5 } /\ p[i] = p[1] }
ExampleWindow == << 100000, 95000, 80000, 60000, 55000 >>
\* a window whose largest value lies before the value the decline starts from
EarlyPeakWindow == << 90000, 20000, 80000, 70000, 60000, 50000 >>
TrajSeries ==
    { [ i \in 1..MaxWindowCols |-> sc * p[i] ] : sc \in TrajScales, p \in TrajPatterns }
        \cup { ExampleWindow, EarlyPeakWindow }
TrajRow(name, v) == Row(None, Text(name), << Num(5) >> \o [ i \in 1..Len(v) |-> Num(v[i]) ])
TrajSheet(v, withK2) ==
    [ header |-> << Date(2025, 1, 15) >> \o [ i \in 1..Len(v) |-> Text(CutOffLabel(i)) ],
      rows |-> IF withK2
               THEN << TrajRow(TxtK1, v), TrajRow(TxtK2, [ i \in 1..Len(v) |-> 10 ]) >>
               ELSE << TrajRow(TxtK1, v) >> ]
TrajWorkbooks ==
    { (ArtSheet :> ArtFixedSheet) @@ (KundSheet :> TrajSheet(v, withK2)) :
        v \in TrajSeries, withK2 \in BOOLEAN }

InitHandler ==
    /\ pc = "start"
    /\ data = EmptyData
    /\ ltms = << >>
    /\ curr = NoKey
    /\ prev = NoKey
    /\ cohorts = NoCohorts
    /\ trajectories = NoTrajectories
    /\ html = NoHtml
    /\ response = NoResponse
    /\ commentary = EmptyMap
    /\ error = NoError
    /\ labels = {}
    /\ sorted_labels = << >>
    /\ industry_stats = << >>
    /\ input = None
    /\ output = None

\* no API key typed in, nothing stored in the session yet
InitPlain == InitHandler /\ api_key = NoApiKey /\ session_state = << >>

Init == wb \in SmallWorkbooks \cup WideWorkbooks /\ InitPlain
Spec == Init /\ [][Next]_vars

\* many declining customers: customer i starts from ManyStart and loses
\* ManyStep at every cut-off; under pattern 4 every fourth customer is flat and
\* the one after it rises twice before it declines three times
ManyStart(p, i) == IF p % 2 = 0 THEN 100000 + (20000 * (i % 3)) ELSE 100000
ManyStep(p, i) ==
    CASE p = 1 -> 1000 * i
      [] p = 2 -> 1000 * (15 - i)
      [] p = 3 -> 1000 * ((i % 3) + 1)
      [] OTHER -> IF i % 4 = 0 THEN 0 ELSE 1000 * i
ManyValue(p, i, j) ==
    IF p = 4 /\ i % 4 = 1 /\ j < 3 THEN ManyStart(p, i) - ((3 - j) * ManyStep(p, i))
    ELSE IF p = 4 /\ i % 4 = 1 THEN ManyStart(p, i) - ((j - 3) * ManyStep(p, i))
    ELSE ManyStart(p, i) - ((j - 1) * ManyStep(p, i))
ManyTrajPatterns == 1..4
ManyTrajName(i) == << "T" >> \o NatToStr(i)
ManyTrajCols == { 2, TrajectoryPeriods }
ManyTrajSizes == (TopTrajectories - 1)..MaxTrajRows
ManyTrajSheet(n, p, k) ==
    [ header |-> << Date(2025, 1, 15) >> \o [ j \in 1..k |-> Text(CutOffLabel(j)) ],
      rows |-> [ i \in 1..n |->
                   TrajRow(ManyTrajName(i), [ j \in 1..k |-> ManyValue(p, i, j) ]) ] ]
ManyTrajWorkbooks ==
    { (ArtSheet :> ArtFixedSheet) @@ (KundSheet :> ManyTrajSheet(n, p, k)) :
        n \in ManyTrajSizes, p \in ManyTrajPatterns, k \in ManyTrajCols }

InitTraj == wb \in TrajWorkbooks \cup ManyTrajWorkbooks /\ InitPlain
SpecTraj == InitTraj /\ [][Next]_vars

-----------------------------------------------------------------------------
(* Report workbooks: missing sheets, unreadable file, cancelling totals,     *)
(* churned customers with their monthly history, more than twenty entities  *)

\* rows of the sheets with many entities
MaxManyRows == 22

\* per-customer header: three months, a fiscal year, previous and current LTM
ReportHeader ==
    << Date(2024, 12, 1), Date(2025, 1, 15), Date(2025, 2, 1), Text(FY \o << "2", "5" >>),
       Text(MkLabel(24, 11)), Text(MkLabel(25, 11)) >>

ReportSheet(rows) == [ header |-> ReportHeader, rows |-> rows ]

\* K1 bought in the previous period and not in the current one; its months
\* are absent, zero, positive or negative; K2 keeps the current key alive
MonthCells == { None, Num(0), Num(5), Num(-2) }
ChurnSheets ==
    { ReportSheet(<< Row(None, Text(TxtK1), << m1, m2, m3, fy, Num(9), None >>),
                     Row(None, Text(TxtK2), << Num(5), None, None, None, Num(4), Num(4) >>) >>) :
        m1 \in MonthCells, m2 \in MonthCells, m3 \in MonthCells, fy \in { None, Num(8) } }

\* two customers whose current values may cancel
CancelSheets ==
    { ReportSheet(<< Row(None, Text(TxtK1), << Num(5), None, None, None, p, c1 >>),
                     Row(None, Text(TxtK2), << Num(5), None, None, None, Num(4), c2 >>) >>) :
        p \in { None, Num(9) }, c1 \in { None, Num(4), Num(-4) },
        c2 \in { Num(4), Num(-4), Num(9) } }

\* the value of entity i of a many-entity sheet
ManyPattern(p, i) ==
    CASE p = 1 -> i
      [] p = 2 -> 30 - i
      [] p = 3 -> (i % 3) + 1
      [] p = 4 -> i - 2
      [] OTHER -> 7
ManyPatterns == 1..5
ManyName(i) == << "E" >> \o NatToStr(i)
ManyKundSheet(n, p) ==
    ReportSheet([ i \in 1..n |->
        Row(None, Text(ManyName(i)),
            << Num(5), None, None, None, Num(ManyPattern(6 - p, i)), Num(ManyPattern(p, i)) >>) ])
ManyArtSheet(n, p) ==
    [ header |-> ArtHeader,
      rows |-> [ i \in 1..n |->
        Row(Text(ManyName(i)), Text(TxtX),
            << Num(5), None, None, None, Num(ManyPattern(p, i)) >>) ] ]
ManySizes == (Top20Limit - 1)..MaxManyRows

\* sheets about as wide as the header scan reaches: one row, a month and an
\* LTM column at the left, empty columns, and a last column of some kind
LongLasts ==
    { Text(MkLabel(25, 11)), Text(FY \o << "2", "5" >>), Text(YTD), Date(2025, 3, 1),
      Text(TxtX) }
LongSizes == (HeaderScanLimit - 4)..(HeaderScanLimit - 1)
LongSheet(n, last, v) ==
    [ header |-> [ i \in 1..n |-> IF i = 1 THEN Date(2024, 12, 1)
                                  ELSE IF i = 2 THEN Text(MkLabel(24, 11))
                                  ELSE IF i = n THEN last ELSE None ],
      rows |-> << Row(Text(TxtA1), Text(TxtK1),
                      [ i \in 1..n |-> IF i = 1 THEN Num(5)
                                       ELSE IF i = 2 THEN Num(9)
                                       ELSE IF i = n THEN v ELSE None ]) >> ]
LongWorkbooks ==
    { (ArtSheet :> LongSheet(n, last, v)) @@ (KundSheet :> LongSheet(n, last, v)) :
        n \in LongSizes, last \in LongLasts, v \in { Num(4), Num(0) } }

\* customers of three sectors, two of them in the same one; each has a
\* (previous, current) pair that is absent, churned, new, growing, declining
\* or declining into a credit
IndustryPairs ==
    { << None, None >>, << Num(9), None >>, << None, Num(4) >>, << Num(4), Num(9) >>,
      << Num(9), Num(4) >>, << Num(9), Num(-4) >> }
IndustryRow(name, pair) ==
    Row(None, Text(name), << Num(5), None, None, None, pair[1], pair[2] >>)
IndustrySheets ==
    { ReportSheet(<< IndustryRow(<< "V", "o", "l", "v", "o", " ", "A", "B" >>, a),
                     IndustryRow(<< "S", "K", "F", " ", "S", "v", "e", "r", "i", "g", "e" >>, b),
                     IndustryRow(<< "S", "c", "a", "n", "i", "a", " ", "C", "V" >>, c),
                     IndustryRow(TxtK1, << Num(4), Num(4) >>) >>) :
        a \in IndustryPairs, b \in IndustryPairs, c \in IndustryPairs }

\* three churned customers, each last buying in December, in February or
\* never in the monthly columns (a fiscal-year value keeps the row); K2 keeps
\* the current key alive
TimelineMonths ==
    { << None, None, None >>, << Num(5), None, None >>, << Num(5), None, Num(3) >> }
TimelineRow(name, m, p) == Row(None, Text(name), << m[1], m[2], m[3], Num(8), Num(p), None >>)
TimelineSheets ==
    { ReportSheet(<< TimelineRow(ManyName(1), a, 9), TimelineRow(ManyName(2), b, 7),
                     TimelineRow(ManyName(3), c, 9),
                     Row(None, Text(TxtK2), << Num(5), None, None, None, Num(4), Num(4) >>) >>) :
        a \in TimelineMonths, b \in TimelineMonths, c \in TimelineMonths }

ReportWorkbooks ==
    { BadFile, (ArtSheet :> ArtFixedSheet), (KundSheet :> KundFixedSheet) }
        \cup { (ArtSheet :> ArtFixedSheet) @@ (KundSheet :> k) :
                 k \in ChurnSheets \cup CancelSheets }
        \cup { (ArtSheet :> ManyArtSheet(n, p)) @@ (KundSheet :> ManyKundSheet(n, p)) :
                 n \in ManySizes, p \in ManyPatterns }
        \cup LongWorkbooks
        \cup { (ArtSheet :> ArtFixedSheet) @@ (KundSheet :> k) :
                 k \in IndustrySheets \cup TimelineSheets }

\* the workbooks a request with an API key is made for: totals that cancel,
\* totals that do not, and a customer sheet alone
KeyedWorkbooks ==
    { (KundSheet :> KundFixedSheet) }
        \cup { (ArtSheet :> ArtFixedSheet) @@
               (KundSheet :> ReportSheet(
                   << Row(None, Text(TxtK1), << Num(5), None, None, None, Num(9), Num(4) >>),
                      Row(None, Text(TxtK2), << Num(5), None, None, None, Num(4), c2 >>) >>)) :
                 c2 \in { Num(4), Num(-4) } }

\* the session after an earlier, successful generation for the fixed workbook
PriorData ==
    CHOOSE d \in parse_master((ArtSheet :> ArtFixedSheet) @@ (KundSheet :> KundFixedSheet)) : TRUE
PriorSession ==
    Stored(<< >>, generate_html(PriorData, MkLabel(25, 11), MkLabel(24, 11), EmptyMap),
           PriorData, MkLabel(25, 11), MkLabel(24, 11))

InitReport ==
    /\ InitHandler
    /\ session_state \in { << >>, PriorSession }
    /\ \/ wb \in ReportWorkbooks /\ api_key = NoApiKey
       \/ wb \in KeyedWorkbooks /\ api_key = SomeApiKey
SpecReport == InitReport /\ [][Next]_vars

-----------------------------------------------------------------------------
(* clean_amount *)

\* the pair (None, None)
NoAmount == [ amt |-> None, cur |-> None ]
\* the pair (n/d, cur)
Amount(n, d, cur) == [ amt |-> [ t |-> "frac", num |-> n, den |-> d ], cur |-> Text(cur) ]

CurSEK == << "S", "E", "K" >>
\* the alternatives of the second group
CurrencyCodes == { CurSEK, << "E", "U", "R" >>, << "U", "S", "D" >>, << "G", "B", "P" >> }

\* the class [\d\s\xa0\.,]
IsAmountChar(c) == IsDigit(c) \/ IsSpace(c) \/ c \in { ".", "," }

\* the length of the longest prefix of t in that class
RECURSIVE RunLen(_)
RunLen(t) ==
    IF t = << >> \/ ~IsAmountChar(t[1]) THEN 0 ELSE 1 + RunLen(Tail(t))

\* m.group(2): one of the codes, in any letter case, right after the run
Group2(rest) ==
    IF Len(rest) >= 3 /\ StrUpper(SubSeq(rest, 1, 3)) \in CurrencyCodes
    THEN SubSeq(rest, 1, 3) ELSE << >>

\* re.search(r',\d{2}$', s): $ also matches before a final newline
EndsCommaTwoDigits(s) ==
    LET e == IF s # << >> /\ s[Len(s)] = "\n" THEN Len(s) - 1 ELSE Len(s)
        At(k) == k >= 3 /\ s[k - 2] = "," /\ IsDigit(s[k - 1]) /\ IsDigit(s[k])
    IN  At(Len(s)) \/ At(e)

\* s.replace(old, new) for one-character strings
StrReplaceChar(s, old, new) == [ i \in 1..Len(s) |-> IF s[i] = old THEN new ELSE s[i] ]

RECURSIVE Pow10(_)
Pow10(k) == IF k = 0 THEN 1 ELSE 10 * Pow10(k - 1)

\* float(s) succeeds: digits with at most one point and at least one digit,
\* white space around them allowed
FloatParses(s) ==
    LET b == StrStrip(s)
    IN  /\ \A i \in 1..Len(b) : IsDigit(b[i]) \/ b[i] = "."
        /\ Cardinality({ i \in 1..Len(b) : b[i] = "." }) <= 1
        /\ \E i \in 1..Len(b) : IsDigit(b[i])

\* float(s) when it succeeds, as numerator and denominator
FloatOf(s) ==
    LET b == StrStrip(s)
        p == IF \E i \in 1..Len(b) : b[i] = "."
             THEN CHOOSE i \in 1..Len(b) : b[i] = "." ELSE Len(b) + 1
        whole == SubSeq(b, 1, p - 1)
        part == SubSeq(b, p + 1, Len(b))
    IN  << DigitsValue(whole) * Pow10(Len(part)) + DigitsValue(part), Pow10(Len(part)) >>

clean_amount(raw) ==
    IF raw = None THEN NoAmount
    ELSE LET t == StrStrip(PyStr(raw))
             n == RunLen(t)
         IN  IF n = 0 THEN NoAmount
             ELSE LET g2 == Group2(SubSeq(t, n + 1, Len(t)))
                      s0 == StrRemove(StrRemove(SubSeq(t, 1, n), << Nbsp >>), << " " >>)
                      cur == IF g2 # << >> THEN StrUpper(g2) ELSE CurSEK
                      s == IF EndsCommaTwoDigits(s0)
                           THEN StrReplaceChar(StrRemove(s0, << "." >>), ",", ".")
                           ELSE StrRemove(s0, << "," >>)
                  IN  IF FloatParses(s) THEN Amount(FloatOf(s)[1], FloatOf(s)[2], cur)
                      ELSE NoAmount

-----------------------------------------------------------------------------
(* generate_ai_commentary on its own *)

CallCommentary ==
    /\ pc = "call"
    /\ commentary' = generate_ai_commentary(api_key, response)
    /\ pc' = "returned"
    /\ UNCHANGED << wb, data, ltms, curr, prev, cohorts, trajectories, html, api_key,
                    response, error, session_state, labels, sorted_labels, industry_stats, input, output >>

InitCommentary ==
    /\ pc = "call"
    /\ api_key \in { NoApiKey, SomeApiKey }
    /\ response \in ApiResponses
    /\ commentary = None
    /\ wb = << >>
    /\ data = EmptyData
    /\ ltms = << >>
    /\ curr = NoKey
    /\ prev = NoKey
    /\ cohorts = NoCohorts
    /\ trajectories = NoTrajectories
    /\ html = NoHtml
    /\ error = NoError
    /\ session_state = << >>
    /\ labels = {}
    /\ sorted_labels = << >>
    /\ industry_stats = << >>
    /\ input = None
    /\ output = None

NextCommentary == CallCommentary
SpecCommentary == InitCommentary /\ [][NextCommentary]_vars

-----------------------------------------------------------------------------
(* classify_customer_industry on its own *)

AllKeywords ==
    UNION { { industry_keywords[i].keywords[j] :
                j \in 1..Len(industry_keywords[i].keywords) } :
            i \in 1..Len(industry_keywords) }

\* the first and the last keyword of every sector
EdgeKeywords ==
    { industry_keywords[i].keywords[1] : i \in 1..Len(industry_keywords) }
        \cup { industry_keywords[i].keywords[Len(industry_keywords[i].keywords)] :
                 i \in 1..Len(industry_keywords) }

\* names: none, numbers, empty and blank ones, names with no keyword, every
\* keyword alone, in capitals and inside a longer name, and two keywords in
\* both orders
IndustryNames ==
    { None, Num(0), Num(5), Text(<< >>), Text(<< " " >>), Text(<< " ", "\t", " " >>),
      Text(<< "V", "o", "l", "v", "o", " ", "T", "r", "u", "c", "k", "s", " ", "A", "B" >>),
      Text(<< "A", "c", "m", "e" >>), Text(<< " ", "B", "o", "l", "a", "g", "e", "t", " ", "7", " " >>) }
        \cup { Text(k) : k \in AllKeywords }
        \cup { Text(StrUpper(k)) : k \in AllKeywords }
        \cup { Text(<< "X", "-" >> \o k \o << "e", "r", " ", "A", "B" >>) : k \in AllKeywords }
        \cup { Text(k1 \o << " " >> \o k2) : k1 \in EdgeKeywords, k2 \in AllKeywords }
        \cup { Text(k2 \o << " " >> \o StrUpper(k1)) : k1 \in EdgeKeywords, k2 \in AllKeywords }

Classify ==
    /\ pc = "classify"
    /\ output' = Text(classify_customer_industry(input))
    /\ pc' = "returned"
    /\ UNCHANGED << wb, data, ltms, curr, prev, cohorts, trajectories, html, api_key,
                    response, commentary, error, session_state, labels, sorted_labels,
                    industry_stats, input >>

InitBare ==
    /\ wb = << >>
    /\ data = EmptyData
    /\ ltms = << >>
    /\ curr = NoKey
    /\ prev = NoKey
    /\ cohorts = NoCohorts
    /\ trajectories = NoTrajectories
    /\ html = NoHtml
    /\ api_key = NoApiKey
    /\ response = NoResponse
    /\ commentary = EmptyMap
    /\ error = NoError
    /\ session_state = << >>
    /\ labels = {}
    /\ sorted_labels = << >>
    /\ industry_stats = << >>
    /\ output = None

InitIndustry ==
    /\ pc = "classify"
    /\ input \in IndustryNames
    /\ InitBare

NextIndustry == Classify
SpecIndustry == InitIndustry /\ [][NextIndustry]_vars

-----------------------------------------------------------------------------
(* clean_amount on its own *)

\* characters of a numeric run
MaxRunLen == 4

RunChars == { "1", "5", " ", ".", "," }
\* what follows the run: nothing, a code the parser knows, one in small
\* letters, a code it does not know, and a word that is no code
AmountTails ==
    { << >>, << " ", "S", "E", "K" >>, << "e", "u", "r" >>, << " ", "N", "O", "K" >>, << " ", "s", "t" >> }

AmountInputs ==
    { None, Num(0), Num(500), Num(-5),
      Text(<< "1", " ", "2", "3", "4", ",", "5", "0", " ", "S", "E", "K" >>), Text(<< "1", ",", "2", "3", "4", ".", "5", "0" >>),
      Text(<< "5", "0", "0", " ", "E", "U", "R" >>), Text(<< "n", "/", "a" >>),
      Text(<< "5", "0", "0", " ", "N", "O", "K" >>), Text(<< "1", ".", "2", "3", "4", ",", "5", "0", " ", "U", "S", "D" >>),
      Text(<< "1", Nbsp, "2", "3", "4", ",", "5", "0", Nbsp, "g", "b", "p" >>), Text(<< "1", ",", "2", "3", "4", ",", "5", "0" >>),
      Text(<< "1", "2", ",", "3", "4", "5", " ", "S", "E", "K" >>), Text(<< "-", "5", " ", "S", "E", "K" >>),
      Text(<< "S", "E", "K", " ", "5", "0", "0" >>) }
        \cup { Text(r \o tl) : r \in SeqsUpTo(RunChars, MaxRunLen), tl \in AmountTails }

CleanAmount ==
    /\ pc = "clean_amount"
    /\ output' = clean_amount(input)
    /\ pc' = "returned"
    /\ UNCHANGED << wb, data, ltms, curr, prev, cohorts, trajectories, html, api_key,
                    response, commentary, error, session_state, labels, sorted_labels,
                    industry_stats, input >>

InitAmount ==
    /\ pc = "clean_amount"
    /\ input \in AmountInputs
    /\ InitBare

NextAmount == CleanAmount
SpecAmount == InitAmount /\ [][NextAmount]_vars

-----------------------------------------------------------------------------
(* The period key resolver on its own: sorting a set of labels *)

\* labels per set
MaxLabels == 2

\* labels that are not "LTM yy-mon": an unknown month, no month, a year that
\* is no number, the bare prefix, no prefix, a four-digit and a one-digit
\* year, no space after the prefix, a third part
MalformedLabels ==
    { LtmPrefix \o << "2", "5", "-", "x", "y", "z" >>,
      LtmPrefix \o << "2", "5" >>,
      LtmPrefix \o << "a", "b", "-", "n", "o", "v" >>,
      LTM,
      << "2", "5", "-", "n", "o", "v" >>,
      LtmPrefix \o << "2", "0", "2", "5", "-", "n", "o", "v" >>,
      LtmPrefix \o << "5", "-", "n", "o", "v" >>,
      LTM \o << "2", "5", "-", "n", "o", "v" >>,
      LtmPrefix \o << "2", "5", "-", "n", "o", "v", "-", "x" >> }

\* every label "LTM yy-mon" in lower, upper and capitalised month spelling
WellFormedLabels ==
    UNION { { MkLabel(yy, mi), MkLabelUpper(yy, mi), MkLabelTitle(yy, mi) } :
              yy \in 0..99, mi \in 1..12 }

\* the labels that are combined into sets of several labels
PairPool ==
    { MkLabel(yy, mi) : yy \in { 24, 25 }, mi \in 1..12 }
        \cup { MkLabelUpper(25, 11), MkLabelTitle(24, 1), MkLabel(0, 12), MkLabel(99, 1) }
        \cup MalformedLabels

\* the non-empty subsets of PairPool with at most n labels
RECURSIVE PoolSets(_)
PoolSets(n) ==
    IF n <= 1 THEN { { l } : l \in PairPool }
    ELSE { S \cup { l } : S \in PoolSets(n - 1), l \in PairPool }

LabelSets ==
    { { l } : l \in WellFormedLabels \cup MalformedLabels } \cup PoolSets(MaxLabels)

\* sorted(labels, key=ltm_sort_key), each label kept with its key
SortLabels ==
    /\ pc = "key"
    /\ \E o \in SortedSetByKey(labels) :
          sorted_labels' = [ i \in 1..Len(o) |-> [ label |-> o[i], key |-> ltm_sort_key(o[i]) ] ]
    /\ pc' = "sorted"
    /\ UNCHANGED << wb, data, ltms, curr, prev, cohorts, trajectories, html, api_key,
                    response, commentary, error, session_state, labels, industry_stats, input, output >>

InitKey ==
    /\ pc = "key"
    /\ labels \in LabelSets
    /\ sorted_labels = << >>
    /\ wb = << >>
    /\ data = EmptyData
    /\ ltms = << >>
    /\ curr = NoKey
    /\ prev = NoKey
    /\ cohorts = NoCohorts
    /\ trajectories = NoTrajectories
    /\ html = NoHtml
    /\ api_key = NoApiKey
    /\ response = NoResponse
    /\ commentary = EmptyMap
    /\ error = NoError
    /\ session_state = << >>
    /\ industry_stats = << >>
    /\ input = None
    /\ output = None

NextKey == SortLabels
SpecKey == InitKey /\ [][NextKey]_vars

-----------------------------------------------------------------------------
(* Properties *)

\* the number of elements of list s that satisfy P
CountIn(s, P(_)) == Cardinality({ i \in 1..Len(s) : P(s[i]) })

\* the handler has run analyze_cohorts
CohortsDone == pc \in { "cohorts", "trajectories", "industries", "commentary", "html" }

CustomerNames == { data.customers[i].kund : i \in 1..Len(data.customers) }

\* the number of customers named n whose (cur, prev) values satisfy Cond
CustomersWith(n, Cond(_, _)) ==
    LET Is(c) == c.kund = n /\ Cond(Get0(c.ltm, curr), Get0(c.ltm, prev))
    IN  CountIn(data.customers, Is)

\* the number of records of list l for the customer named n
RecordsOf(l, n) == LET Is(r) == r.kund = n IN CountIn(l, Is)

IsChurnedPair(cur, prv) == prv > 0 /\ cur = 0
IsNewPair(cur, prv) == prv = 0 /\ cur > 0
IsDecliningPair(cur, prv) == cur < prv /\ ~IsChurnedPair(cur, prv)
IsGrowingPair(cur, prv) == cur > prv /\ ~IsNewPair(cur, prv)
IsMovedPair(cur, prv) == cur # prv

IndexOf(l, k) == CHOOSE i \in 1..Len(l) : l[i] = k

\* the sum of field values F(r) over the records r of list l
SumOf(l, F(_)) == SumSeq([ i \in 1..Len(l) |-> F(l[i]) ])

PreviousOf(r) == r.previous
CurrentOf(r) == r.current
ChangeOf(r) == r.change
LossOf(r) == r.previous - r.current

\* C2: for every consecutive period pair walked by analyze_ltm_decomposition,
\* the record's four components equal the per-customer sums over the lists
\* analyze_cohorts returns for that pair: -churn = sum of prev over churned,
\* -decline = sum of (prev - cur) over declining, growth = sum of (cur - prev)
\* over growing, new = sum of cur over new.
C2_DecompositionMatchesCohorts ==
    pc = "html" =>
        \A i \in 1..Len(html.ltm_decomp.decomposition) :
            LET rec == html.ltm_decomp.decomposition[i]
                k == IndexOf(ltms, rec.period)
                co == analyze_cohorts(data, ltms[k], ltms[k - 1])
            IN  /\ k > 1
                /\ -rec.churn = SumOf(co.churned, PreviousOf)
                /\ -rec.decline = SumOf(co.declining, LossOf)
                /\ rec.growth = SumOf(co.growing, ChangeOf)
                /\ rec.new = SumOf(co.new, CurrentOf)

\* a walk of several pairs with churn in one pair and new revenue in another
C2_Witness ==
    /\ pc = "html"
    /\ Len(html.ltm_decomp.decomposition) >= 2
    /\ \E i, j \in 1..Len(html.ltm_decomp.decomposition) :
          /\ html.ltm_decomp.decomposition[i].churn < 0
          /\ html.ltm_decomp.decomposition[j].new > 0
          /\ html.ltm_decomp.decomposition[j].decline < 0

\* C3: the revenue bridge reconciles exactly: every decomposition record has
\* total_change = churn + decline + growth + new, and for the report's pair
\* prior total - churn loss - decline loss + growth gain + new gain = current total.
C3_BridgeReconciles ==
    pc = "html" =>
        /\ \A i \in 1..Len(html.ltm_decomp.decomposition) :
              LET rec == html.ltm_decomp.decomposition[i]
              IN  rec.total_change = rec.churn + rec.decline + rec.growth + rec.new
        /\ html.prev_ltm_val - html.churn_loss - html.decline_loss
              + html.growth_gain + html.new_gain = html.total_ltm

\* a report over two customers whose bridge has a loss and a gain
C3_Witness ==
    /\ pc = "html"
    /\ Len(data.customers) = 2
    /\ html.churn_loss > 0
    /\ html.growth_gain > 0
    /\ Len(html.ltm_decomp.decomposition) >= 2
    /\ html.total_ltm # html.prev_ltm_val

\* C4: analyze_ltm_decomposition with N trailing periods takes the most recent
\* N + 1 LTM keys (all keys if fewer) and emits one record per consecutive pair:
\* with N = 12 and at least 13 keys, 12 records for the 12 most recent periods.
C4_DecompositionTakesNPlusOne ==
    pc = "html" =>
        LET recent == LastN(ltms, DecompositionPeriods + 1)
            dec == html.ltm_decomp.decomposition
        IN  /\ Len(dec) = Len(recent) - 1
            /\ \A i \in 1..Len(dec) : dec[i].period = recent[i + 1]
            /\ (Len(ltms) >= DecompositionPeriods + 1 => Len(dec) = DecompositionPeriods)

\* the month part of a ten-character label in lower case
CanonLabel(l) ==
    IF Len(l) = 10 THEN SubSeq(l, 1, 7) \o StrLower(SubSeq(l, 8, 10)) ELSE l

\* the (yy, month index) pairs for which l is "LTM yy-mon", mon in any letter case
WellFormedAs(l) ==
    IF Len(l) # 10 \/ ~IsDigit(l[5]) \/ ~IsDigit(l[6]) THEN {}
    ELSE { ym \in { 10 * DigitVal(l[5]) + DigitVal(l[6]) } \X (1..12) :
             CanonLabel(l) = MkLabel(ym[1], ym[2]) }

\* C5: ltm_sort_key maps every label that is not of the form "LTM yy-mon" (mon
\* from the 12-entry table) to (9999, 99), so every malformed label sorts after
\* all well-formed labels.
C5_MalformedSortLast ==
    pc = "sorted" =>
        \A i \in 1..Len(sorted_labels) :
            WellFormedAs(sorted_labels[i].label) = {} =>
                /\ sorted_labels[i].key = << 9999, 99 >>
                /\ \A j \in 1..Len(sorted_labels) :
                      WellFormedAs(sorted_labels[j].label) # {} => j < i

\* C6: for every well-formed label "LTM yy-mon", mon in any letter case,
\* ltm_sort_key returns (2000 + yy, index of mon), and sorting well-formed labels
\* by this key orders them chronologically.
C6_WellFormedKeyChronological ==
    pc = "sorted" =>
        /\ \A i \in 1..Len(sorted_labels) :
              \A ym \in WellFormedAs(sorted_labels[i].label) :
                  sorted_labels[i].key = << 2000 + ym[1], ym[2] >>
        /\ \A i, j \in 1..Len(sorted_labels) :
              i < j =>
                \A a \in WellFormedAs(sorted_labels[i].label),
                   b \in WellFormedAs(sorted_labels[j].label) :
                    a[1] < b[1] \/ (a[1] = b[1] /\ a[2] <= b[2])

\* "LTM 24-dec" and "LTM 24-jan" sorted: January first, against lexical order
C6_Witness ==
    /\ pc = "sorted"
    /\ Len(sorted_labels) = 2
    /\ sorted_labels[1] = [ label |-> MkLabel(24, 1), key |-> << 2024, 1 >> ]
    /\ sorted_labels[2] = [ label |-> MkLabel(24, 12), key |-> << 2024, 12 >> ]

\* the handler has run analyze_ltm_trajectories
TrajectoriesDone == pc \in { "trajectories", "industries", "commentary", "html" }

\* the window values of customer c: the last six sorted LTM keys, missing = 0
WindowOf(c) ==
    LET w == LastN(ltms, 6) IN [ i \in 1..Len(w) |-> Get0(c.ltm, w[i]) ]

\* the number of contiguous strictly decreasing steps counted back from the end
DeclineRun(v) ==
    CHOOSE k \in 0..(Len(v) - 1) :
        /\ \A j \in 1..k : v[Len(v) - j + 1] < v[Len(v) - j]
        /\ k = Len(v) - 1 \/ ~(v[Len(v) - k] < v[Len(v) - k - 1])

MeetsAtRisk(v) ==
    /\ \E i \in 1..Len(v) : v[i] >= 50000
    /\ v[Len(v)] > 0
    /\ DeclineRun(v) >= 3

\* C7: before the top-10 cap, a customer is recorded as at-risk iff the maximum
\* of its window values is at least 50,000, its last window value is > 0 and
\* its consecutive decline count is >= 3, the count being the number of
\* contiguous strictly decreasing steps counted backward from the last index;
\* for the window [100000, 95000, 80000, 60000, 55000] the count is 4 and the
\* customer is at-risk.
C7_AtRiskIff ==
    (TrajectoriesDone /\ Len(data.customers) <= TopTrajectories) =>
        /\ \A n \in CustomerNames :
              LET Meets(c) == c.kund = n /\ MeetsAtRisk(WindowOf(c))
              IN  RecordsOf(trajectories.at_risk, n) = CountIn(data.customers, Meets)
        /\ \A i \in 1..Len(trajectories.at_risk) :
              \E j \in 1..Len(data.customers) :
                  /\ data.customers[j].kund = trajectories.at_risk[i].kund
                  /\ MeetsAtRisk(WindowOf(data.customers[j]))
                  /\ trajectories.at_risk[i].consecutive_months
                        = DeclineRun(WindowOf(data.customers[j]))
        /\ \A j \in 1..Len(data.customers) :
              WindowOf(data.customers[j]) = ExampleWindow =>
                  \E i \in 1..Len(trajectories.at_risk) :
                      /\ trajectories.at_risk[i].kund = data.customers[j].kund
                      /\ trajectories.at_risk[i].consecutive_months = 4

\* the example window, recorded as at-risk with count 4
C7_Witness ==
    /\ pc = "trajectories"
    /\ \E i \in 1..Len(trajectories.at_risk) :
          /\ trajectories.at_risk[i].trajectory = ExampleWindow
          /\ trajectories.at_risk[i].consecutive_months = 4

\* C8: every customer listed under consistent_decline has a strictly monotonic
\* decline over the whole window, v[i] < v[i-1] for every consecutive pair,
\* hence its start value is greater than its current value.
C8_ConsistentDeclineMonotonic ==
    TrajectoriesDone =>
        \A i \in 1..Len(trajectories.consistent_decline) :
            LET rec == trajectories.consistent_decline[i]
            IN  /\ \A k \in 2..Len(rec.trajectory) :
                      rec.trajectory[k] < rec.trajectory[k - 1]
                /\ rec.start > rec.current

\* parse_master has returned
Parsed ==
    pc \in { "parsed", "selected", "no_ltm", "cohorts", "trajectories", "industries",
            "commentary", "html" }

NonZeroNumber(c) == c.t = "num" /\ c.v # 0
NumberOr0(c) == IF c.t = "num" THEN c.v ELSE 0

\* the header of column c names a calendar month or a fiscal period
IsMonthOrFiscalCol(ws, c) ==
    LET h == CellAt(ws, 1, c)
    IN  h.t = "date" \/ (h.t = "str" /\ (StartsWith(h.s, FY) \/ h.s = YTD))

\* row r of ws has an identifier in column idc that is neither empty nor the
\* total sentinel, and a non-zero number in a month or fiscal column
RowQualifies(ws, r, idc) ==
    /\ Truthy(CellAt(ws, r, idc))
    /\ ~(CellAt(ws, r, idc).t = "str" /\ CellAt(ws, r, idc).s = Summa)
    /\ \E c \in 3..MaxColumn(ws) :
          IsMonthOrFiscalCol(ws, c) /\ NonZeroNumber(CellAt(ws, r, c))

\* the qualifying rows of sheet `name` (identifier in column idc), in sheet order
QualifyingRows(name, idc) ==
    IF name \notin DOMAIN wb THEN << >>
    ELSE LET Q(r) == RowQualifies(wb[name], r, idc)
         IN  SelectSeq([ i \in 1..Len(wb[name].rows) |-> i + 1 ], Q)

\* the sum, over the qualifying rows, of the numbers in the columns whose header
\* satisfies IsHdr
QualifyingSum(name, idc, IsHdr(_)) ==
    IF name \notin DOMAIN wb THEN 0
    ELSE LET q == QualifyingRows(name, idc)
             RowSum(r) ==
                 SumSeq([ j \in 1..Len(wb[name].header) |->
                            IF IsHdr(wb[name].header[j])
                            THEN NumberOr0(CellAt(wb[name], r, j + 2)) ELSE 0 ])
         IN  SumSeq([ i \in 1..Len(q) |-> RowSum(q[i]) ])

EntityKept(id, e) ==
    /\ id # << >>
    /\ id # Summa
    /\ (\E k \in DOMAIN e.monthly : e.monthly[k] # 0)
          \/ (\E k \in DOMAIN e.fy : e.fy[k] # 0)

\* C9: every entity of the Dataset has a non-empty identifier different from
\* 'Summa' and a non-zero value in its monthly or fiscal series; a source row
\* failing any of these (also one with only LTM values) contributes no entity
\* and nothing to monthly_totals or ltm_trend: the entities are exactly the
\* qualifying rows, in order, and each total is the sum over those rows' cells.
C9_OnlyQualifyingRows ==
    Parsed =>
        LET qa == QualifyingRows(ArtSheet, 1)
            qk == QualifyingRows(KundSheet, 2)
        IN  /\ \A i \in 1..Len(data.articles) :
                  EntityKept(data.articles[i].artikelnr, data.articles[i])
            /\ \A i \in 1..Len(data.customers) :
                  EntityKept(data.customers[i].kund, data.customers[i])
            /\ Len(data.articles) = Len(qa)
            /\ \A i \in 1..Len(qa) :
                  data.articles[i].artikelnr = PyStr(CellAt(wb[ArtSheet], qa[i], 1))
            /\ Len(data.customers) = Len(qk)
            /\ \A i \in 1..Len(qk) :
                  data.customers[i].kund = PyStr(CellAt(wb[KundSheet], qk[i], 2))
            /\ \A m \in DOMAIN data.monthly_totals :
                  LET IsM(h) == h.t = "date" /\ << h.y, h.m >> = m
                  IN  data.monthly_totals[m] = QualifyingSum(ArtSheet, 1, IsM)
            /\ \A l \in DOMAIN data.ltm_trend.val :
                  LET IsL(h) == h.t = "str" /\ h.s = l
                  IN  data.ltm_trend.val[l] = QualifyingSum(KundSheet, 2, IsL)

\* a customer row with only LTM values is left out beside a retained row
C9_Witness ==
    /\ pc = "parsed"
    /\ KundSheet \in DOMAIN wb
    /\ Len(wb[KundSheet].rows) = 2
    /\ Len(data.customers) = 1
    /\ \E r \in 2..3 :
          /\ ~RowQualifies(wb[KundSheet], r, 2)
          /\ CellAt(wb[KundSheet], r, 2) = Text(TxtK1)
          /\ NonZeroNumber(CellAt(wb[KundSheet], r, 5))
          /\ NonZeroNumber(CellAt(wb[KundSheet], r, 6))

\* C10: monthly_totals[m] is the sum over the retained articles of monthly[m]
\* (missing = 0) for every month key any retained article has, ltm_trend[l] the
\* sum over the retained customers of ltm[l] for every LTM label any retained
\* customer has, and neither map has any other key.
C10_TotalsAreSums ==
    Parsed =>
        /\ DOMAIN data.monthly_totals
              = UNION { DOMAIN data.articles[i].monthly : i \in 1..Len(data.articles) }
        /\ \A m \in DOMAIN data.monthly_totals :
              LET AtM(a) == IF m \in DOMAIN a.monthly THEN a.monthly[m] ELSE 0
              IN  data.monthly_totals[m] = SumOf(data.articles, AtM)
        /\ DOMAIN data.ltm_trend.val
              = UNION { DOMAIN data.customers[i].ltm : i \in 1..Len(data.customers) }
        /\ { data.ltm_trend.keys[i] : i \in 1..Len(data.ltm_trend.keys) }
              = DOMAIN data.ltm_trend.val
        /\ Len(data.ltm_trend.keys) = Cardinality(DOMAIN data.ltm_trend.val)
        /\ \A l \in DOMAIN data.ltm_trend.val :
              LET AtL(c) == IF l \in DOMAIN c.ltm THEN c.ltm[l] ELSE 0
              IN  data.ltm_trend.val[l] = SumOf(data.customers, AtL)

\* two retained articles, one month held by both and one by the first only
C10_Witness ==
    /\ pc = "parsed"
    /\ Len(data.articles) = 2
    /\ << 2025, 1 >> \in DOMAIN data.articles[1].monthly
    /\ << 2025, 1 >> \in DOMAIN data.articles[2].monthly
    /\ << 2025, 2 >> \in DOMAIN data.articles[1].monthly
    /\ << 2025, 2 >> \notin DOMAIN data.articles[2].monthly
    /\ data.monthly_totals[<< 2025, 1 >>] = 10
    /\ Len(data.customers) = 1

\* equal fractions
FracEq(a, b) == a.num * b.den = b.num * a.den

\* the handler has called generate_html
Rendered == pc = "html" \/ (pc = "error" /\ error = ErrZeroDivision)

\* C11: both concentration percentages of the report are the sum of the top-20
\* current values over the current-period aggregate times 100, and 0 when the
\* aggregate is 0; rendering raises no error when the aggregate is 0.
C11_ConcentrationZeroSafe ==
    Rendered =>
        LET total == Get0(data.ltm_trend.val, curr)
            Expected(sum) == IF total = 0 THEN ZeroFrac ELSE Frac(sum * 100, total)
            Cur(c) == c.current
            Val(a) == a.value
        IN  /\ pc = "html"
            /\ FracEq(html.conc_pct, Expected(SumOf(html.top20_cust, Cur)))
            /\ FracEq(html.art_conc_pct, Expected(SumOf(html.top20_art, Val)))

\* the smallest of the values v(r) of the records of list l
MinOf(l, v(_)) == CHOOSE x \in { v(l[i]) : i \in 1..Len(l) } : \A i \in 1..Len(l) : x <= v(l[i])

\* list l holds at most twenty records, all with value v > 0, in non-increasing
\* order, each made from an entity of `all` of the same name, and every
\* entity of `all` it leaves out has a value <= 0 or not above the smallest
\* value of l
IsTop20(l, v(_), name(_), all, w(_), ename(_)) ==
    /\ Len(l) <= 20
    /\ \A i \in 1..Len(l) : v(l[i]) > 0
    /\ \A i \in 1..(Len(l) - 1) : v(l[i]) >= v(l[i + 1])
    /\ \A i, j \in 1..Len(l) : name(l[i]) = name(l[j]) => i = j
    /\ \A i \in 1..Len(l) :
          \E k \in 1..Len(all) : ename(all[k]) = name(l[i]) /\ w(all[k]) = v(l[i])
    /\ \A k \in 1..Len(all) :
          \/ w(all[k]) <= 0
          \/ \E i \in 1..Len(l) : name(l[i]) = ename(all[k])
          \/ Len(l) = 20 /\ w(all[k]) <= MinOf(l, v)

\* C12: get_top20_cust and get_top20_art return at most 20 records with value
\* > 0 in non-increasing order, leave out only entities whose value is <= 0 or
\* not above the smallest returned, and each customer record carries
\* previous = ltm[prev] or 0 and change = current - previous.
C12_Top20 ==
    pc = "html" =>
        LET CurOf(r) == r.current
            KundOf(r) == r.kund
            ValOf(r) == r.value
            NrOf(r) == r.artikelnr
            AtCurr(e) == Get0(e.ltm, curr)
        IN  /\ IsTop20(html.top20_cust, CurOf, KundOf, data.customers, AtCurr, KundOf)
            /\ IsTop20(html.top20_art, ValOf, NrOf, data.articles, AtCurr, NrOf)
            /\ \A i \in 1..Len(html.top20_cust) :
                  LET r == html.top20_cust[i]
                  IN  /\ r.change = r.current - r.previous
                      /\ \E k \in 1..Len(data.customers) :
                            /\ data.customers[k].kund = r.kund
                            /\ r.previous = Get0(data.customers[k].ltm, prev)

\* more than twenty customers and articles sell in the current period, in an
\* order that differs from the sheet's, and twenty of each are returned
C12_Witness ==
    /\ pc = "html"
    /\ Len(html.top20_cust) = 20
    /\ Len(html.top20_art) = 20
    /\ Cardinality({ k \in 1..Len(data.customers) : Get0(data.customers[k].ltm, curr) > 0 }) > 20
    /\ Cardinality({ k \in 1..Len(data.articles) : Get0(data.articles[k].ltm, curr) > 0 }) > 20
    /\ html.top20_cust[1].kund # data.customers[1].kund
    /\ html.top20_cust[1].current > html.top20_cust[20].current

\* the request fails: no key, an exception of the transport, a status other
\* than 200, a body without the content field, a text with no "{" before a
\* "}", or a braced part that is no JSON
CommentaryFails ==
    \/ api_key = NoApiKey
    \/ response.kind = "raise"
    \/ response.status # 200
    \/ ~response.has_content
    \/ ~\E i, j \in 1..Len(response.text) :
           i < j /\ response.text[i] = "{" /\ response.text[j] = "}"
    \/ ~JsonParses(JsonMatch(response.text))

\* C13: generate_ai_commentary returns a map on every path, and the empty map
\* on every failure path (no key, transport error, non-200 status, no content
\* field, no JSON object in the text, JSON that does not parse).
C13_CommentaryFailsOpen ==
    pc = "returned" =>
        /\ commentary.t = "dict"
        /\ CommentaryFails => commentary = EmptyMap

\* the report without its commentary texts
Bindings(h) == [ h EXCEPT !.commentary = EmptyMap ]

\* C14: whatever the commentary call returns (a map, the empty map after a
\* failure, nothing at all), the handler goes on to generate_html exactly as it
\* does with no API key: when the report can be rendered it is produced and
\* stored, its computed bindings are those of the report rendered with the
\* empty commentary, and after a failed call it is that report.
C14_CommentaryNeverAborts ==
    (pc \in { "html", "error" } /\ api_key # NoApiKey) =>
        LET plain == generate_html(data, curr, prev, EmptyMap)
        IN  IF Get0(data.ltm_trend.val, curr) # 0
            THEN /\ pc = "html"
                 /\ DOMAIN session_state = { "intel_html", "intel_data", "intel_ltm" }
                 /\ session_state["intel_html"] = html
                 /\ Bindings(html) = Bindings(plain)
                 /\ CommentaryFails => html = plain
            ELSE pc = "error" /\ error = ErrZeroDivision

\* the API answered 200 with a text that holds no JSON object, the call
\* returned nothing, and the report is stored
C14_Witness ==
    /\ pc = "html"
    /\ api_key = SomeApiKey
    /\ response.kind = "answer"
    /\ response.status = 200
    /\ commentary = None
    /\ session_state["intel_html"] = html
    /\ html.commentary = EmptyMap

\* the workbook was read and lacks the per-article or the per-customer sheet
SheetMissing == wb # BadFile /\ (ArtSheet \notin DOMAIN wb \/ KundSheet \notin DOMAIN wb)

\* C15: with a required sheet absent the generation is aborted with an error
\* and no report is produced: the handler gets no further than the parse, it
\* ends with an error message, and nothing is rendered or stored.
C15_MissingSheetAborts ==
    SheetMissing =>
        /\ pc \in { "start", "parsed", "no_ltm", "error" }
        /\ pc \in { "no_ltm", "error" } => error # NoError
        /\ html = NoHtml

SessionKeys == { "intel_html", "intel_data", "intel_ltm" }

\* C16: an attempt that ends with no LTM data or with an exception shows an
\* error message and leaves the session's intel_html, intel_data and intel_ltm
\* as they were; the three keys change only in the step that completes a
\* successful generation, and then all three are set, to the report, the
\* Dataset and the selected pair.
C16_FailureKeepsSession ==
    [][ /\ pc' \in { "no_ltm", "error" } => (error' # NoError /\ session_state' = session_state)
        /\ session_state' # session_state =>
              /\ pc' = "html"
              /\ error' = NoError
              /\ html' # NoHtml
              /\ DOMAIN session_state' = SessionKeys
              /\ session_state'["intel_html"] = html'
              /\ session_state'["intel_data"] = data'
              /\ session_state'["intel_ltm"] = << curr', prev' >>
        /\ DOMAIN session_state' \in { {}, SessionKeys } ]_vars

\* rendering raised while the session held an earlier report, which is kept
C16_Witness ==
    /\ pc = "error"
    /\ error = ErrZeroDivision
    /\ session_state = PriorSession
    /\ DOMAIN session_state = SessionKeys

-----------------------------------------------------------------------------
(* classify_customer_industry: the first matching sector *)

\* kw occurs in s from some position on, character by character
Occurs(kw, s) ==
    \E k \in 1..Len(s) :
        \A m \in 1..Len(kw) : k + m - 1 <= Len(s) /\ s[k + m - 1] = kw[m]

\* the sectors with a keyword in the lower-cased name
MatchingSectors(name) ==
    { i \in 1..Len(industry_keywords) :
        \E j \in 1..Len(industry_keywords[i].keywords) :
            Occurs(industry_keywords[i].keywords[j], StrLower(PyStr(name))) }

\* C17: the sector returned is the earliest declared sector with a keyword
\* that occurs in the lower-cased name; it is 'Other/General' when the name is
\* empty, blank or has no keyword of any sector.
C17_FirstMatchingSector ==
    pc = "returned" /\ output # None =>
        LET blank == ~Truthy(input) \/ \A k \in 1..Len(PyStr(input)) : IsSpace(PyStr(input)[k])
            hits == MatchingSectors(input)
        IN  output.s = IF blank \/ hits = {} THEN OtherGeneral
                       ELSE industry_keywords[CHOOSE i \in hits : \A h \in hits : i <= h].industry

\* a name with keywords of several sectors, the first of which is returned
C17_Witness ==
    /\ pc = "returned"
    /\ output # None
    /\ Cardinality(MatchingSectors(input)) >= 2
    /\ 1 \notin MatchingSectors(input)
    /\ output.s # OtherGeneral

-----------------------------------------------------------------------------
(* clean_amount: the number and the currency code *)

\* the value has been parsed
AmountReturned == pc = "returned" /\ output # None /\ "amt" \in DOMAIN output

\* the text of the value, and its leading numeric run with blanks removed
AmountText == StrStrip(PyStr(input))
CleanedRun ==
    LET run == SubSeq(AmountText, 1, RunLen(AmountText))
    IN  SelectSeq(run, LAMBDA c : ~IsSpace(c))

\* the run ends in a comma followed by exactly two digits
CommaIsDecimal ==
    LET r == CleanedRun
    IN  Len(r) >= 3 /\ r[Len(r) - 2] = "," /\ IsDigit(r[Len(r) - 1]) /\ IsDigit(r[Len(r)])

\* the run without its thousands separators, split at the decimal separator
RunParts ==
    LET thousands == IF CommaIsDecimal THEN "." ELSE ","
        decimal == IF CommaIsDecimal THEN "," ELSE "."
    IN  StrSplit(SelectSeq(CleanedRun, LAMBDA c : c # thousands), decimal)

RunConverts ==
    /\ Len(RunParts) <= 2
    /\ \A i \in 1..Len(RunParts) : \A k \in 1..Len(RunParts[i]) : IsDigit(RunParts[i][k])
    /\ \E i \in 1..Len(RunParts) : RunParts[i] # << >>

\* the three letters that follow the run, in capitals; SEK when none follow
CodeAfterRun ==
    LET rest == SubSeq(AmountText, RunLen(AmountText) + 1, Len(AmountText))
        Letter(c) == LowerChar(c) # UpperChar(c)
    IN  IF /\ Len(rest) >= 3
           /\ \A i \in 1..3 : Letter(rest[i])
           /\ (Len(rest) = 3 \/ ~Letter(rest[4]))
        THEN StrUpper(SubSeq(rest, 1, 3))
        ELSE CurSEK

\* C18: clean_amount returns (null, null) for an absent value, a value that
\* does not start with a numeric run, or a run that does not convert;
\* otherwise the number, read with the comma as decimal separator exactly when
\* the run ends in a comma and two digits, and the currency code that follows
\* the run, SEK when none follows.
C18_AmountAndCurrency ==
    AmountReturned =>
        IF input = None \/ RunLen(AmountText) = 0 \/ ~RunConverts
        THEN output = NoAmount
        ELSE LET whole == RunParts[1]
                 part == IF Len(RunParts) = 2 THEN RunParts[2] ELSE << >>
             IN  /\ output.amt # None
                 /\ output.amt.num * Pow10(Len(part))
                       = (DigitsValue(whole) * Pow10(Len(part)) + DigitsValue(part))
                            * output.amt.den
                 /\ output.cur = Text(CodeAfterRun)

\* the number is right for every value, whatever the currency returned
AmountNumberRight ==
    AmountReturned =>
        IF input = None \/ RunLen(AmountText) = 0 \/ ~RunConverts
        THEN output = NoAmount
        ELSE LET whole == RunParts[1]
                 part == IF Len(RunParts) = 2 THEN RunParts[2] ELSE << >>
             IN  /\ output.amt # None
                 /\ output.amt.num * Pow10(Len(part))
                       = (DigitsValue(whole) * Pow10(Len(part)) + DigitsValue(part))
                            * output.amt.den

\* the examples of the amount parser
AmountExamples ==
    AmountReturned =>
        /\ input = Text(<< "1", " ", "2", "3", "4", ",", "5", "0", " ", "S", "E", "K" >>) => output = Amount(123450, 100, CurSEK)
        /\ input = Text(<< "1", ",", "2", "3", "4", ".", "5", "0" >>) => output = Amount(123450, 100, CurSEK)
        /\ input = Text(<< "5", "0", "0", " ", "E", "U", "R" >>) => output = Amount(500, 1, << "E", "U", "R" >>)
        /\ input = Text(<< "n", "/", "a" >>) => output = NoAmount

\* a code the parser does not list is returned as SEK
UnknownCodeAsSEK ==
    /\ AmountReturned
    /\ input = Text(<< "5", "0", "0", " ", "N", "O", "K" >>)
    /\ output = Amount(500, 1, CurSEK)

-----------------------------------------------------------------------------
(* analyze_cohorts: the last month of a churned customer *)

\* month a is not after month b
MonthNotAfter(a, b) == a[1] < b[1] \/ (a[1] = b[1] /\ a[2] <= b[2])

\* m is the most recent month of c's monthly series whose value satisfies
\* Counts, and no month at all when no value does
IsLastMonthWhere(c, m, Counts(_)) ==
    IF \A k \in DOMAIN c.monthly : ~Counts(c.monthly[k])
    THEN m = NoMonth
    ELSE /\ m \in DOMAIN c.monthly
         /\ Counts(c.monthly[m])
         /\ \A k \in DOMAIN c.monthly : Counts(c.monthly[k]) => MonthNotAfter(k, m)

\* every churned record belongs to a churned customer whose last month
\* satisfies the rule, and every churned customer has such a record
ChurnedLastMonths(Counts(_)) ==
    LET IsChurned(c) == Get0(c.ltm, prev) > 0 /\ Get0(c.ltm, curr) = 0
        Of(r, c) == /\ IsChurned(c)
                    /\ r.kund = c.kund
                    /\ r.previous = Get0(c.ltm, prev)
                    /\ IsLastMonthWhere(c, r.last_month, Counts)
    IN  /\ \A i \in 1..Len(cohorts.churned) :
              \E j \in 1..Len(data.customers) : Of(cohorts.churned[i], data.customers[j])
        /\ \A j \in 1..Len(data.customers) :
              IsChurned(data.customers[j]) =>
                  \E i \in 1..Len(cohorts.churned) : Of(cohorts.churned[i], data.customers[j])

\* C19 as stated: last_month of a churned record is the most recent month of
\* the customer's monthly series with a non-zero value, and null only when the
\* customer has no month with a non-zero value.
C19_LastMonthNonZero ==
    CohortsDone => ChurnedLastMonths(LAMBDA v : v # 0)

\* C19, amended: last_month of a churned record is the most recent month of
\* the customer's monthly series with a value above zero, and null exactly
\* when the customer has no month with a value above zero.
C19_LastMonthPositive ==
    CohortsDone => ChurnedLastMonths(LAMBDA v : v > 0)

\* a churned customer with a positive month followed by a negative one
C19_Witness ==
    /\ CohortsDone
    /\ \E i \in 1..Len(cohorts.churned), j \in 1..Len(data.customers) :
          LET r == cohorts.churned[i]
              c == data.customers[j]
          IN  /\ r.kund = c.kund
              /\ r.last_month # NoMonth
              /\ \E k \in DOMAIN c.monthly :
                    c.monthly[k] < 0 /\ ~MonthNotAfter(k, r.last_month)

-----------------------------------------------------------------------------
(* analyze_ltm_trajectories: peak, current and decline_pct of at-risk records *)

\* a = b for fractions, without products
FracSame(a, b) == ~FracLess(a, b) /\ ~FracLess(b, a)

\* rec carries the peak, the current value and the decline of window v
PeakCurrentDecline(rec, v) ==
    LET n == Len(v)
        k == DeclineRun(v)
    IN  /\ rec.consecutive_months = k
        /\ \E i \in 1..(n - k) : rec.peak = v[i]
        /\ \A i \in 1..(n - k) : v[i] <= rec.peak
        /\ rec.current = v[n]
        /\ IF rec.peak = 0 THEN rec.decline_pct.num = 0
           ELSE FracSame(rec.decline_pct, Frac((rec.peak - rec.current) * 100, rec.peak))

\* C20: for every at-risk record with decline count k over a window v of n
\* values, peak is the maximum of the first n - k values (up to and including
\* the value the declining run starts from), current is the last value, and
\* decline_pct is (peak - current) / peak * 100, 0 for a peak of 0; the window
\* 100000, 95000, 80000, 60000, 55000 gives 100000, 55000 and 45.
C20_PeakCurrentDecline ==
    TrajectoriesDone =>
        \A i \in 1..Len(trajectories.at_risk) :
            LET rec == trajectories.at_risk[i]
            IN  /\ \E j \in 1..Len(data.customers) :
                      /\ data.customers[j].kund = rec.kund
                      /\ rec.trajectory = WindowOf(data.customers[j])
                      /\ PeakCurrentDecline(rec, WindowOf(data.customers[j]))
                /\ rec.trajectory = ExampleWindow =>
                      /\ rec.peak = 100000
                      /\ rec.current = 55000
                      /\ FracSame(rec.decline_pct, Frac(45, 1))

\* an at-risk record whose peak lies before the value the run starts from
C20_Witness ==
    /\ TrajectoriesDone
    /\ \E i \in 1..Len(trajectories.at_risk) :
          LET rec == trajectories.at_risk[i]
              v == rec.trajectory
          IN  /\ rec.peak > v[Len(v) - rec.consecutive_months]
              /\ rec.current > 0
              /\ rec.decline_pct.num > 0

-----------------------------------------------------------------------------
(* parse_master: every header column is classified *)

\* the series a header names, and the key it names in that series
HeaderSeries(h) ==
    IF h.t = "date" THEN "monthly"
    ELSE IF h.t = "str" /\ (StartsWith(h.s, FY) \/ h.s = YTD) THEN "fy"
    ELSE IF h.t = "str" /\ StartsWith(h.s, LTM) THEN "ltm"
    ELSE "ignored"
HeaderKey(h) == IF h.t = "date" THEN << h.y, h.m >> ELSE h.s

\* entity e carries, in the series each header of columns 3..upto names, the
\* non-zero number of row r under that header (the last column of a repeated
\* header counts), and nothing else
RowClassified(ws, r, e, upto) ==
    LET Named(c, kind) == HeaderSeries(CellAt(ws, 1, c)) = kind
        Last(c, kind) ==
            \A d \in (c + 1)..upto :
                ~(Named(d, kind) /\ HeaderKey(CellAt(ws, 1, d)) = HeaderKey(CellAt(ws, 1, c)))
        Holds(series, kind) ==
            /\ \A c \in 3..upto :
                  (Named(c, kind) /\ Last(c, kind)) =>
                      LET k == HeaderKey(CellAt(ws, 1, c))
                      IN  IF NonZeroNumber(CellAt(ws, r, c))
                          THEN k \in DOMAIN series /\ series[k] = CellAt(ws, r, c).v
                          ELSE k \notin DOMAIN series
            /\ \A k \in DOMAIN series :
                  \E c \in 3..upto : Named(c, kind) /\ HeaderKey(CellAt(ws, 1, c)) = k
    IN  /\ Holds(e.monthly, "monthly")
        /\ Holds(e.fy, "fy")
        /\ Holds(e.ltm, "ltm")

\* the entities of sheet `name` are its qualifying rows, classified over the
\* columns 3..Upto(sheet)
SheetClassified(name, idc, entities, Upto(_)) ==
    name \in DOMAIN wb =>
        LET q == QualifyingRows(name, idc)
        IN  /\ Len(entities) = Len(q)
            /\ \A i \in 1..Len(q) :
                  RowClassified(wb[name], q[i], entities[i], Upto(wb[name]))

\* C21: parse_master classifies every header from column 3 through the last
\* column of the sheet, however many columns it has: a date header is a month
\* column, text starting with FY or equal to YTD a fiscal column, text starting
\* with LTM an LTM column, and only other headers are ignored.
C21_EveryHeaderClassified ==
    Parsed =>
        /\ SheetClassified(ArtSheet, 1, data.articles, MaxColumn)
        /\ SheetClassified(KundSheet, 2, data.customers, MaxColumn)

\* the same over the columns 3..99 only
HeadersClassifiedBelowLimit ==
    Parsed =>
        LET Upto(ws) == Min(MaxColumn(ws), HeaderScanLimit - 1)
        IN  /\ SheetClassified(ArtSheet, 1, data.articles, Upto)
            /\ SheetClassified(KundSheet, 2, data.customers, Upto)

\* an LTM value in column 100 of the customer sheet is not in the Dataset
Column100Dropped ==
    /\ Parsed
    /\ KundSheet \in DOMAIN wb
    /\ MaxColumn(wb[KundSheet]) = HeaderScanLimit
    /\ CellAt(wb[KundSheet], 1, HeaderScanLimit) = Text(MkLabel(25, 11))
    /\ CellAt(wb[KundSheet], 2, HeaderScanLimit) = Num(4)
    /\ Len(data.customers) = 1
    /\ MkLabel(25, 11) \notin DOMAIN data.customers[1].ltm

-----------------------------------------------------------------------------
(* The industry aggregation: the amounts of a sector record *)

IndustriesDone == pc \in { "industries", "commentary", "html" }

\* the customers of sector ind with a non-zero current or previous value
SectorCustomers(ind) ==
    LET In(c) == /\ classify_customer_industry(Text(c.kund)) = ind
                 /\ (Get0(c.ltm, curr) # 0 \/ Get0(c.ltm, prev) # 0)
    IN  SelectSeq(data.customers, In)

\* the sum, over the customers of sector ind in cohort `which`, of Rev
SectorAmount(ind, which, Rev(_, _)) ==
    LET cs == SectorCustomers(ind)
    IN  SumSeq([ i \in 1..Len(cs) |->
                   IF CohortCase(Get0(cs[i].ltm, curr), Get0(cs[i].ltm, prev)) = which
                   THEN Rev(Get0(cs[i].ltm, curr), Get0(cs[i].ltm, prev)) ELSE 0 ])

\* C22: each sector record reports the customer count, the current sum and the
\* four amounts churned_rev, new_rev, growing_rev and declining_rev, each the
\* sum over the sector's customers of the amount their cohort assigns (prev for
\* churned, cur for new, cur - prev for growing, prev - cur for declining).
C22_SectorAmounts ==
    IndustriesDone =>
        \A i \in 1..Len(data.industry_analysis) :
            LET rec == data.industry_analysis[i]
                ind == rec.industry
            IN  /\ rec.count = Len(SectorCustomers(ind))
                /\ rec.churned_rev = SectorAmount(ind, "churned", LAMBDA c, p : p)
                /\ { "new_rev", "growing_rev", "declining_rev" } \subseteq DOMAIN rec
                /\ rec.new_rev = SectorAmount(ind, "new", LAMBDA c, p : c)
                /\ rec.growing_rev = SectorAmount(ind, "growing", LAMBDA c, p : c - p)
                /\ rec.declining_rev = SectorAmount(ind, "declining", LAMBDA c, p : p - c)

\* the amounts a sector record does carry are the sums of its customers
SectorCarriedAmountsRight ==
    IndustriesDone =>
        \A i \in 1..Len(data.industry_analysis) :
            LET rec == data.industry_analysis[i]
                ind == rec.industry
                cs == SectorCustomers(ind)
            IN  /\ rec.count = Len(cs)
                /\ rec.curr_ltm = SumSeq([ k \in 1..Len(cs) |-> Get0(cs[k].ltm, curr) ])
                /\ rec.churned_rev = SectorAmount(ind, "churned", LAMBDA c, p : p)

\* a sector record of a sector with a growing customer
GrowingSectorRecord ==
    /\ IndustriesDone
    /\ \E i \in 1..Len(data.industry_analysis) :
          /\ data.industry_analysis[i].industry # OtherGeneral
          /\ SectorAmount(data.industry_analysis[i].industry, "growing",
                          LAMBDA c, p : c - p) > 0
          /\ "growing_rev" \notin DOMAIN data.industry_analysis[i]

-----------------------------------------------------------------------------
(* The Dataset after parse_master *)

\* C23: once parse_master has returned, no step of the report pipeline adds,
\* removes or changes a key or a value of the Dataset.
C23_DatasetReadOnly == [][pc # "start" => data' = data]_vars

\* the steps other than the industry step leave the Dataset as it is
DatasetReadOnlyButIndustry ==
    [][(pc # "start" /\ pc # "trajectories") => data' = data]_vars

\* the Dataset carries a fifth key once the industry step has run
DatasetGainsKey ==
    /\ IndustriesDone
    /\ "industry_analysis" \in DOMAIN data
    /\ data.industry_analysis # << >>

-----------------------------------------------------------------------------
(* parse_master: identifiers *)

\* C24: in the Dataset parse_master returns, no two customers share an
\* identifier and no two articles share an identifier, whatever the rows of
\* the source tables are.
C24_IdentifiersUnique ==
    Parsed =>
        /\ \A i, j \in 1..Len(data.customers) :
              i # j => data.customers[i].kund # data.customers[j].kund
        /\ \A i, j \in 1..Len(data.articles) :
              i # j => data.articles[i].artikelnr # data.articles[j].artikelnr

\* two customer rows with the same name give two customers of that name
SameNameTwice ==
    /\ pc = "parsed"
    /\ Len(data.customers) = 2
    /\ data.customers[1].kund = data.customers[2].kund
    /\ wb[KundSheet].rows[1].c2 = wb[KundSheet].rows[2].c2

-----------------------------------------------------------------------------
(* period selection *)

PeriodsSelected ==
    pc \in { "selected", "cohorts", "trajectories", "industries", "commentary", "html" }

\* l holds exactly the keys of ltm_trend, in non-decreasing ltm_sort_key order
IsSortedKeys(l) ==
    /\ Len(l) = Len(data.ltm_trend.keys)
    /\ { l[i] : i \in 1..Len(l) }
          = { data.ltm_trend.keys[i] : i \in 1..Len(data.ltm_trend.keys) }
    /\ LET key == [ i \in 1..Len(l) |-> ltm_sort_key(l[i]) ]
       IN  \A i \in 1..(Len(l) - 1) : ~KeyLess(key[i + 1], key[i])

NoCustomerClassified ==
    /\ cohorts.churned = << >>
    /\ cohorts.declining = << >>
    /\ cohorts.growing = << >>
    /\ cohorts.new = << >>

\* C25: the period selection sorts the keys of ltm_trend by ltm_sort_key and
\* takes the last as current; previous is the key 12 positions before the last
\* when there are more than 12 keys, and the oldest key otherwise.  With one
\* key previous = current and no customer is classified; with no key no pair
\* is selected and no analysis runs.
C25_PeriodSelection ==
    /\ pc = "selected" => IsSortedKeys(ltms)
    /\ PeriodsSelected =>
          /\ data.ltm_trend.keys # << >>
          /\ Len(ltms) = Len(data.ltm_trend.keys)
          /\ curr = ltms[Len(ltms)]
          /\ prev = IF Len(ltms) > 12 THEN ltms[Len(ltms) - 12] ELSE ltms[1]
          /\ (Len(ltms) = 1 /\ CohortsDone) => (prev = curr /\ NoCustomerClassified)
    /\ (Parsed /\ data.ltm_trend.keys = << >>) =>
          /\ pc \in { "parsed", "no_ltm" }
          /\ curr = NoKey /\ prev = NoKey
          /\ cohorts = NoCohorts /\ trajectories = NoTrajectories
          /\ industry_stats = << >> /\ html = NoHtml

\* fourteen keys: previous is the second oldest, not the oldest
C25_Witness ==
    /\ PeriodsSelected
    /\ Len(ltms) = 14
    /\ prev = ltms[2]
    /\ prev # ltms[1]

SingleKeySelected == CohortsDone /\ Len(ltms) = 1 /\ prev = curr /\ Len(data.customers) = 2
NoKeyNoAnalysis == pc = "no_ltm" /\ Len(data.customers) > 0

-----------------------------------------------------------------------------
(* analyze_cohorts: churn timeline *)

BucketOf(r) == IF r.last_month = NoMonth THEN Unknown ELSE r.last_month

RECURSIVE SumField(_, _, _)
SumField(tl, S, f) ==
    IF S = {} THEN 0
    ELSE LET b == CHOOSE x \in S : TRUE IN tl[b][f] + SumField(tl, S \ { b }, f)

\* C26: the churn timeline groups the churned records by last_month, with
\* the bucket "Unknown" for a null last_month, and conserves them: the counts
\* add up to the number of churned records, the totals to the sum of their
\* previous values, and no bucket has count 0.
C26_ChurnTimelineConserves ==
    CohortsDone =>
        LET ch == cohorts.churned
            tl == cohorts.churn_timeline
            Of(b) == { i \in 1..Len(ch) : BucketOf(ch[i]) = b }
        IN  /\ DOMAIN tl = { BucketOf(ch[i]) : i \in 1..Len(ch) }
            /\ \A b \in DOMAIN tl :
                  /\ tl[b].count = Cardinality(Of(b))
                  /\ tl[b].count # 0
                  /\ tl[b].total = SumSeq([ i \in 1..Len(ch) |->
                                              IF i \in Of(b) THEN ch[i].previous ELSE 0 ])
            /\ SumField(tl, DOMAIN tl, "count") = Len(ch)
            /\ SumField(tl, DOMAIN tl, "total")
                  = SumSeq([ i \in 1..Len(ch) |-> ch[i].previous ])

\* three churned customers: two last bought in the same month, one never
C26_Witness ==
    /\ CohortsDone
    /\ Len(cohorts.churned) = 3
    /\ DOMAIN cohorts.churn_timeline = { Unknown, << 2025, 2 >> }
    /\ cohorts.churn_timeline[Unknown].count = 1
    /\ cohorts.churn_timeline[Unknown].total = 7
    /\ cohorts.churn_timeline[<< 2025, 2 >>].total = 18

-----------------------------------------------------------------------------
(* analyze_ltm_trajectories: the ten most severe *)

\* the number of entries of list l equal to record r
CopiesIn(l, r) == Cardinality({ i \in 1..Len(l) : l[i] = r })

\* list `top` holds at most ten records of `pool`, in descending order of the
\* keys Less compares, and no record of the pool left out ranks strictly
\* above one that is included
IsTopTen(top, pool, Less(_, _)) ==
    /\ Len(top) <= 10
    /\ Len(top) = Min(10, Len(pool))
    /\ \A i \in 1..Len(top) : CopiesIn(top, top[i]) <= CopiesIn(pool, top[i])
    /\ \A i, j \in 1..Len(top) : i < j => ~Less(top[i], top[j])
    /\ \A i \in 1..Len(pool), j \in 1..Len(top) :
          CopiesIn(top, pool[i]) < CopiesIn(pool, pool[i]) => ~Less(top[j], pool[i])

\* C27: analyze_ltm_trajectories returns at most 10 at-risk and at most 10
\* consistent-decline records, each list being the most severe qualifying
\* customers in descending severity (decline_pct for at-risk, start - current
\* for consistent decline), and both lists are empty when there are fewer
\* than 3 LTM keys.
C27_TenMostSevere ==
    TrajectoriesDone =>
        LET recent == LastN(ltms, 6)
            LessPct(a, b) == FracLess(a.decline_pct, b.decline_pct)
            LessDrop(a, b) == a.start - a.current < b.start - b.current
        IN  IF Len(ltms) < 3
            THEN trajectories.at_risk = << >> /\ trajectories.consistent_decline = << >>
            ELSE /\ IsTopTen(trajectories.at_risk, AtRiskAll(data, recent), LessPct)
                 /\ IsTopTen(trajectories.consistent_decline,
                             ConsistentAll(data, recent), LessDrop)

\* twelve qualifying customers whose severity grows down the sheet: the ten
\* returned are the last ten, the two at the top of the sheet are left out
C27_Witness ==
    /\ TrajectoriesDone
    /\ Len(AtRiskAll(data, LastN(ltms, 6))) = 12
    /\ Len(trajectories.at_risk) = 10
    /\ trajectories.at_risk[1].kund = ManyTrajName(12)
    /\ trajectories.at_risk[10].kund = ManyTrajName(3)
    /\ Len(trajectories.consistent_decline) = 10

TwoKeysNoTrajectories ==
    /\ TrajectoriesDone
    /\ Len(ltms) = 2
    /\ Len(data.customers) = 12
    /\ trajectories = NoTrajectories

-----------------------------------------------------------------------------
(* analyze_ltm_trajectories: the shape of an at-risk record *)

Hundred == Frac(100, 1)

\* C28: every at-risk record has peak > current > 0 and between 3 and
\* (window length - 1) consecutive declines, so its decline_pct lies strictly
\* between 0 and 100; its trajectory has at most 6 points and ends in current.
C28_AtRiskRecordShape ==
    TrajectoriesDone =>
        \A i \in 1..Len(trajectories.at_risk) :
            LET rec == trajectories.at_risk[i]
            IN  /\ rec.peak > rec.current
                /\ rec.current > 0
                /\ 3 <= rec.consecutive_months
                /\ rec.consecutive_months <= Len(trajectories.periods) - 1
                /\ FracLess(ZeroFrac, rec.decline_pct)
                /\ FracLess(rec.decline_pct, Hundred)
                /\ Len(rec.trajectory) \in 1..6
                /\ rec.trajectory[Len(rec.trajectory)] = rec.current

\* a record that declined at every step of a six-point window, and one with
\* exactly three declines
C28_Witness ==
    /\ TrajectoriesDone
    /\ \E i, j \in 1..Len(trajectories.at_risk) :
          /\ trajectories.at_risk[i].consecutive_months = Len(trajectories.periods) - 1
          /\ Len(trajectories.at_risk[i].trajectory) = 6
          /\ trajectories.at_risk[j].consecutive_months = 3
          /\ trajectories.at_risk[j].peak > trajectories.at_risk[j].current

-----------------------------------------------------------------------------
(* parse_master: what a series holds *)

\* series `ser` of the entity read from row r of ws holds key k exactly when
\* the cell of row r in the column the header gives k holds a non-zero number,
\* and then it holds that number
SeriesFromCells(ws, r, ser, cols) ==
    /\ DOMAIN ser \subseteq DOMAIN cols
    /\ \A k \in DOMAIN cols :
          LET c == CellAt(ws, r, cols[k])
          IN  IF NonZeroNumber(c) THEN k \in DOMAIN ser /\ ser[k] = c.v
              ELSE k \notin DOMAIN ser
    /\ \A k \in DOMAIN ser : ser[k] \in Int /\ ser[k] # 0

\* h: the column dicts of the header of ws
EntityFromCells(ws, h, r, e) ==
    /\ SeriesFromCells(ws, r, e.monthly, h.months)
    /\ SeriesFromCells(ws, r, e.fy, h.fys)
    /\ SeriesFromCells(ws, r, e.ltm, h.ltms)

ZeroMonthNoKey ==
    /\ pc = "parsed"
    /\ KundSheet \in DOMAIN wb
    /\ Len(data.customers) >= 1
    /\ CellAt(wb[KundSheet], 2, 3) \in { Num(0), Text(TxtX) }
    /\ data.customers[1].monthly = << >>
    /\ data.customers[1].kund = TxtK1

-----------------------------------------------------------------------------
(* The industry aggregation: conservation *)

\* the customers with a non-zero current or previous value
ActiveCustomers ==
    { i \in 1..Len(data.customers) :
        Get0(data.customers[i].ltm, curr) # 0 \/ Get0(data.customers[i].ltm, prev) # 0 }

\* the entries of industry_stats customer i is counted in
SectorsOf(i) ==
    { j \in 1..Len(industry_stats) :
        industry_stats[j].industry
            = classify_customer_industry(Text(data.customers[i].kund)) }

\* C30: the per-sector aggregation conserves the totals: every customer with
\* a non-zero current or previous value is counted in exactly one sector, the
\* curr sums of all sectors add up to ltm_trend[current], the prev sums to
\* ltm_trend[previous], and the counts to the number of such customers.
C30_SectorsConserveTotals ==
    IndustriesDone =>
        LET n == Len(industry_stats)
        IN  /\ \A i \in ActiveCustomers : Cardinality(SectorsOf(i)) = 1
            /\ \A j \in 1..n :
                  industry_stats[j].count
                      = Cardinality({ i \in ActiveCustomers : j \in SectorsOf(i) })
            /\ SumSeq([ j \in 1..n |-> industry_stats[j].curr ]) = data.ltm_trend.val[curr]
            /\ SumSeq([ j \in 1..n |-> industry_stats[j].prev ]) = data.ltm_trend.val[prev]
            /\ SumSeq([ j \in 1..n |-> industry_stats[j].count ])
                  = Cardinality(ActiveCustomers)

\* three active customers in two sectors, one of them churned, beside a
\* customer without a value in either period
C30_Witness ==
    /\ IndustriesDone
    /\ Len(data.customers) = 4
    /\ Cardinality(ActiveCustomers) = 3
    /\ Len(industry_stats) = 2
    /\ \E j \in 1..2 : industry_stats[j].count = 2 /\ industry_stats[j].churned_rev = 9
    /\ data.ltm_trend.val[prev] > data.ltm_trend.val[curr]

====
